---- MODULE Spec2Model ----
(***************************************************************************)
(* subdomain-storage-sync v2.0.0: the cookie codec, the key matcher, the   *)
(* cookie -> storage replay, the same-tab interception of                  *)
(* Storage.prototype.{setItem,removeItem,clear} and the readiness promise, *)
(* together with the parts of the browser they act on (the cookie jar      *)
(* behind document.cookie, localStorage per origin, sessionStorage per     *)
(* tab).                                                                   *)
(*                                                                         *)
(* A JavaScript string is a sequence of one-character strings              *)
(* ("ab" is <<"a", "b">>).  A value that is not a string is a one-element  *)
(* sequence holding a token longer than one character (NULL, UNDEFINED,    *)
(* LoneSurrogate is a character that is no Unicode scalar value).          *)
(***************************************************************************)
EXTENDS Integers, Sequences, FiniteSets, TLC

\* ------------------------------------------------------------- strings

NULL == <<"\\null">>
UNDEFINED == <<"\\undefined">>

\* typeof v === "string"
IsString(v) == v \notin {NULL, UNDEFINED}

\* A UTF-16 code unit D800: a surrogate with no partner.
LoneSurrogate == "\\uD800"

\* String.prototype.repeat for a one-character string
Repeat(c, n) == [i \in 1..n |-> c]

\* the characters the class \s of a regular expression matches (those modelled)
WhitespaceChars == {" ", "\t", "\n"}

Min(S) == CHOOSE x \in S : \A y \in S : x <= y

\* String.prototype.indexOf(c) for a one-character c; 0 stands for -1
\* (positions are 1-based here)
IndexOf(s, c) ==
  LET hits == {i \in 1..Len(s) : s[i] = c}
  IN IF hits = {} THEN 0 ELSE Min(hits)

\* the first place from i on, and the last place up to i, of a character
\* that is no whitespace (Len(s) + 1 and 0 when there is none)
RECURSIVE FirstInk(_, _)
FirstInk(s, i) ==
  IF i > Len(s) THEN i
  ELSE IF s[i] \notin WhitespaceChars THEN i
  ELSE FirstInk(s, i + 1)

RECURSIVE LastInk(_, _)
LastInk(s, i) ==
  IF i < 1 THEN i
  ELSE IF s[i] \notin WhitespaceChars THEN i
  ELSE LastInk(s, i - 1)

\* String.prototype.trim
Trim(s) == SubSeq(s, FirstInk(s, 1), LastInk(s, Len(s)))

\* String.prototype.startsWith
StartsWith(s, p) == Len(p) <= Len(s) /\ SubSeq(s, 1, Len(p)) = p

\* the string ends with p
EndsWith(s, p) == Len(p) <= Len(s) /\ SubSeq(s, Len(s) - Len(p) + 1, Len(s)) = p

\* ------------------------------------- encodeURIComponent / decodeURIComponent

\* The characters of the modelled alphabet that encodeURIComponent escapes.
\* Every other character of the alphabet is a letter, a digit or one of
\* - _ . ! ~ * ' ( ), which encodeURIComponent leaves alone.
EscapedChars == {" ", "\t", "\n", "%", ",", ";", "="}

\* The two hexadecimal digits of a character's ASCII code: the escaped
\* characters, and the unescaped ones an escape of the model's inputs names.
AsciiCode ==
  [c \in EscapedChars \cup {"A", "v", "x"} |->
     CASE c = " " -> <<"2", "0">>
       [] c = "\t" -> <<"0", "9">>
       [] c = "\n" -> <<"0", "A">>
       [] c = "%" -> <<"2", "5">>
       [] c = "," -> <<"2", "C">>
       [] c = ";" -> <<"3", "B">>
       [] c = "=" -> <<"3", "D">>
       [] c = "A" -> <<"4", "1">>
       [] c = "v" -> <<"7", "6">>
       [] c = "x" -> <<"7", "8">>]

HexDigits == {"0", "1", "2", "3", "4", "5", "6", "7", "8", "9",
              "A", "B", "C", "D", "E", "F", "a", "b", "c", "d", "e", "f"}

\* encodeURIComponent throws URIError on a lone surrogate
EncodeThrows(s) == \E i \in 1..Len(s) : s[i] = LoneSurrogate

EncodeChar(c) == IF c \in EscapedChars THEN <<"%">> \o AsciiCode[c] ELSE <<c>>

\* the encoding of s[lo..hi]: a stretch without escaped characters is
\* copied, any other is encoded half by half
RECURSIVE EncodeRange(_, _, _)
EncodeRange(s, lo, hi) ==
  IF lo > hi THEN <<>>
  ELSE IF \A i \in lo..hi : s[i] \notin EscapedChars THEN SubSeq(s, lo, hi)
  ELSE IF lo = hi THEN EncodeChar(s[lo])
  ELSE LET mid == (lo + hi) \div 2
       IN EncodeRange(s, lo, mid) \o EncodeRange(s, mid + 1, hi)

\* encodeURIComponent(s), for s on which it does not throw
encodeURIComponent(s) == EncodeRange(s, 1, Len(s))

UpperHex(h) ==
  CASE h = "a" -> "A" [] h = "b" -> "B" [] h = "c" -> "C"
    [] h = "d" -> "D" [] h = "e" -> "E" [] h = "f" -> "F" [] OTHER -> h

\* the character the escape %h1h2 stands for (an ASCII code below 0x80)
EscapeChar(h1, h2) ==
  CHOOSE c \in DOMAIN AsciiCode : AsciiCode[c] = <<UpperHex(h1), UpperHex(h2)>>

\* decodeURIComponent throws URIError: a % that is not followed by two
\* hexadecimal digits, or an escaped byte of 0x80 and more outside a
\* well-formed UTF-8 sequence (the alphabet holds no character that encodes
\* to such a sequence, so every such byte is outside one).
DecodeThrows(s) ==
  \E i \in 1..Len(s) :
     /\ s[i] = "%"
     /\ \/ i + 2 > Len(s)
        \/ s[i + 1] \notin HexDigits
        \/ s[i + 2] \notin HexDigits
        \/ UpperHex(s[i + 1]) \in {"8", "9", "A", "B", "C", "D", "E", "F"}

\* decodeURIComponent(s), for s on which it does not throw
decodeURIComponent(s) ==
  LET IsStart(i) == \/ s[i] = "%"
                    \/ ~ \/ (i > 1 /\ s[i - 1] = "%")
                         \/ (i > 2 /\ s[i - 2] = "%")
      starts == SelectSeq([i \in 1..Len(s) |-> i], IsStart)
  IN [j \in 1..Len(starts) |->
        IF s[starts[j]] = "%"
        THEN EscapeChar(s[starts[j] + 1], s[starts[j] + 2])
        ELSE s[starts[j]]]

\* ------------------------------------------------------------ CONFIG

\* A syncKeys entry.  type "string": an exact key, src.  type "regexp": a
\* RegExp object, /^src/ (anchor "^") or /src$/ (anchor "$"), with its global
\* flag and its lastIndex, which RegExp.prototype.test reads and writes when
\* the flag is set.  type "other": any other value.
StringRule(k) == [type |-> "string", src |-> k, anchor |-> "", global |-> FALSE, lastIndex |-> 0]
RegExpRule(a, lit, g) == [type |-> "regexp", src |-> lit, anchor |-> a, global |-> g, lastIndex |-> 0]
OtherRule == [type |-> "other", src |-> <<>>, anchor |-> "", global |-> FALSE, lastIndex |-> 0]

\* CONFIG.syncKeys: an array of entries, or a value that is no array
ArrayOf(items) == [isArray |-> TRUE, items |-> items]
NotAnArray == [isArray |-> FALSE, items |-> <<>>]

DefaultCookiePrefix == <<"s", "d", "s", "_", "s", "y", "n", "c", "_">>
FallbackCookiePrefix == <<"l", "s", "_", "s", "y", "n", "c", "_">>
DefaultCookieMaxAge == 365 * 24 * 60 * 60

\* A JavaScript number is Number(n) for an integer n, or NaN, which is of
\* type number and for which every comparison is false.  NotANumber is a
\* value that is no number: a string that holds no numeral.
Number(n) == [type |-> "number", nan |-> FALSE, n |-> n]
NaN == [type |-> "number", nan |-> TRUE, n |-> 0]
NotANumber == [type |-> "string", nan |-> FALSE, n |-> 0]

\* x <= 0 for a number x
NotAboveZero(x) == ~x.nan /\ x.n <= 0

\* The CONFIG object as the module creates it.  A flag is "true", "false" or
\* a value that is no boolean ("yes": a non-empty string, which is truthy).
CONFIG ==
  [cookiePrefix |-> DefaultCookiePrefix,
   cookieMaxAge |-> Number(DefaultCookieMaxAge),
   syncKeys |-> ArrayOf(<<>>),
   overwriteExisting |-> "false",
   storageType |-> "localStorage",
   debug |-> "false"]

\* the value is truthy
Truthy(flag) == flag \in {"true", "yes"}

\* typeof flag === "boolean"
IsBoolean(flag) == flag \in {"true", "false"}

\* ------------------------------------------------------ sanitizeKey / Value

MaxKeyLength == 200
MaxValueSize == 3500

\* key.replace(/[;,\s=]/g, "_")
ReplaceForbidden(key) ==
  [i \in 1..Len(key) |->
     IF key[i] \in {";", ",", "="} \cup WhitespaceChars THEN "_" ELSE key[i]]

\* sanitizeKey without the limit on the length
sanitizeKeyOfAnyLength(key) ==
  IF ~IsString(key) THEN NULL
  ELSE IF Len(key) = 0 THEN NULL
  ELSE ReplaceForbidden(key)

\* sanitizeKey(key): the sanitized key, or NULL
sanitizeKey(key) ==
  IF ~IsString(key) THEN NULL
  ELSE IF Len(key) = 0 THEN NULL
  ELSE IF Len(key) > MaxKeyLength THEN NULL
  ELSE ReplaceForbidden(key)

\* !sanitizedKey: null and the empty string are falsy
KeyRejected(sanitizedKey) == sanitizedKey = NULL \/ sanitizedKey = <<>>

\* sanitizeValue without the limit on the size
sanitizeValueOfAnySize(value) ==
  IF value = NULL \/ value = UNDEFINED THEN <<>> ELSE value

\* sanitizeValue(value): the string to store, or NULL.  null and undefined
\* become the empty string; the model's values are strings, null and
\* undefined, so String(value) of another type is not needed.
sanitizeValue(value) ==
  IF value = NULL \/ value = UNDEFINED THEN <<>>
  ELSE IF Len(value) > MaxValueSize THEN NULL
  ELSE value

\* --------------------------------------------------------- getParentDomain

\* A host name is the sequence of its labels ("app.example.com" is
\* <<"app", "example", "com">>).  These labels are strings of digits.
NumericLabels == {"0", "1", "10", "127", "168", "192"}

\* /^\d+\.\d+\.\d+\.\d+$/.test(hostname)
IsDottedQuad(hostname) ==
  Len(hostname) = 4 /\ \A i \in 1..4 : hostname[i] \in NumericLabels

\* getParentDomain that keeps every label of the host name
getParentDomainOfHostname(hostname) ==
  IF hostname = <<"localhost">> \/ IsDottedQuad(hostname)
  THEN [dot |-> FALSE, labels |-> hostname]
  ELSE [dot |-> TRUE, labels |-> hostname]

\* getParentDomain(): the domain attribute of the cookies, as the labels
\* after an optional leading dot
getParentDomain(hostname) ==
  IF hostname = <<"localhost">> \/ IsDottedQuad(hostname)
  THEN [dot |-> FALSE, labels |-> hostname]
  ELSE IF Len(hostname) > 2
  THEN [dot |-> TRUE, labels |-> SubSeq(hostname, Len(hostname) - 1, Len(hostname))]
  ELSE [dot |-> TRUE, labels |-> hostname]

\* ------------------------------------------------------------ cookie jar

\* The jar behind document.cookie is the sequence of the browser's cookies in
\* creation order, each [name, value, domain]; every cookie the library sets
\* has path=/.

\* a browser stores no cookie whose name and value together exceed 4096 bytes
CookieCeiling == 4096

\* registry-controlled domains: a browser refuses a cookie whose domain
\* attribute is one of them
PublicSuffixes == {<<"com">>, <<"test">>, <<"uk">>, <<"co", "uk">>}

\* the host is in the domain d (RFC 6265, 5.1.3)
DomainMatches(hostname, d) ==
  \/ hostname = d
  \/ /\ Len(d) < Len(hostname)
     /\ SubSeq(hostname, Len(hostname) - Len(d) + 1, Len(hostname)) = d
     /\ ~IsDottedQuad(hostname)

\* The name and the value the browser reads from the text before the
\* attributes of an assignment to document.cookie: it ends at the first ";",
\* the name ends at the first "=", and both are trimmed.
ParseCookiePair(text) ==
  LET semi == IndexOf(text, ";")
      pair == IF semi = 0 THEN text ELSE SubSeq(text, 1, semi - 1)
      eq == IndexOf(pair, "=")
  IN IF eq = 0
     THEN [name |-> <<>>, value |-> Trim(pair)]
     ELSE [name |-> Trim(SubSeq(pair, 1, eq - 1)),
           value |-> Trim(SubSeq(pair, eq + 1, Len(pair)))]

\* the place in the jar of the cookie with this name and domain, or 0
JarIndex(jar, name, d) ==
  LET hits == {i \in 1..Len(jar) : jar[i].name = name /\ jar[i].domain = d}
  IN IF hits = {} THEN 0 ELSE Min(hits)

\* The attribute max-age=${maxAge} expires the cookie at once when the text
\* is a numeral that is zero or negative; a text that is no numeral (NaN,
\* other words) makes the browser ignore the attribute.
ExpiresAtOnce(maxAge) == maxAge.type = "number" /\ NotAboveZero(maxAge)

\* what the browser does with the pair c of an assignment to document.cookie
\* that carries max-age and domain: the jar afterwards
StoreCookie(jar, hostname, c, maxAge, d) ==
  IF \/ Len(c.name) + Len(c.value) > CookieCeiling
     \/ (c.name = <<>> /\ c.value = <<>>)
     \/ ~DomainMatches(hostname, d)
     \/ d \in PublicSuffixes
  THEN jar
  ELSE IF ExpiresAtOnce(maxAge)
  THEN SelectSeq(jar, LAMBDA x : ~(x.name = c.name /\ x.domain = d))
  ELSE IF JarIndex(jar, c.name, d) = 0
  THEN Append(jar, [name |-> c.name, value |-> c.value, domain |-> d])
  ELSE [jar EXCEPT ![JarIndex(jar, c.name, d)].value = c.value]

\* document.cookie = `${text}; max-age=${maxAge}; domain=${domain}; path=/; SameSite=Lax`
\* on a page of hostname: the jar afterwards
SetDocumentCookie(jar, hostname, text, maxAge, domain) ==
  StoreCookie(jar, hostname, ParseCookiePair(text), maxAge, domain.labels)

\* document.cookie.split(";") on a page of hostname, each piece trimmed: one
\* "name=value" per cookie the page sees (a cookie with no name reads as its
\* value alone).  No stored name or value holds a ";".
DocumentCookie(jar, hostname) ==
  LET seen == SelectSeq(jar, LAMBDA x : DomainMatches(hostname, x.domain))
  IN [i \in 1..Len(seen) |->
        IF seen[i].name = <<>> THEN seen[i].value
        ELSE seen[i].name \o <<"=">> \o seen[i].value]

\* ----------------------------------------------------------- cookie codec

\* writeToCookie(key, value) on a page of hostname with configuration cfg:
\* [ok: what it returns, jar: the jar afterwards]
writeToCookie(cfg, hostname, jar, key, value) ==
  LET sanitizedKey == sanitizeKey(key)
      sanitizedValue == sanitizeValue(value)
  IN IF KeyRejected(sanitizedKey) THEN [ok |-> FALSE, jar |-> jar]
     ELSE IF sanitizedValue = NULL THEN [ok |-> FALSE, jar |-> jar]
     ELSE IF EncodeThrows(sanitizedValue) THEN [ok |-> FALSE, jar |-> jar]
     ELSE [ok |-> TRUE,
           jar |-> SetDocumentCookie(jar, hostname,
                     cfg.cookiePrefix \o sanitizedKey \o <<"=">>
                        \o encodeURIComponent(sanitizedValue),
                     cfg.cookieMaxAge, getParentDomain(hostname))]

\* deleteFromCookie that sends the max-age of the configuration
deleteFromCookieWithMaxAge(cfg, hostname, jar, key) ==
  LET sanitizedKey == sanitizeKey(key)
  IN IF KeyRejected(sanitizedKey) THEN [ok |-> FALSE, jar |-> jar]
     ELSE [ok |-> TRUE,
           jar |-> SetDocumentCookie(jar, hostname,
                     cfg.cookiePrefix \o sanitizedKey \o <<"=">>,
                     cfg.cookieMaxAge, getParentDomain(hostname))]

\* deleteFromCookie(key): [ok, jar]
deleteFromCookie(cfg, hostname, jar, key) ==
  LET sanitizedKey == sanitizeKey(key)
  IN IF KeyRejected(sanitizedKey) THEN [ok |-> FALSE, jar |-> jar]
     ELSE [ok |-> TRUE,
           jar |-> SetDocumentCookie(jar, hostname,
                     cfg.cookiePrefix \o sanitizedKey \o <<"=">>,
                     Number(0), getParentDomain(hostname))]

\* the name and value the library reads from one piece of document.cookie;
\* eq = 0 is equalIndex === -1
SplitPiece(piece) ==
  LET trimmed == Trim(piece)
      eq == IndexOf(trimmed, "=")
  IN [eq |-> eq,
      name |-> IF eq = 0 THEN <<>> ELSE SubSeq(trimmed, 1, eq - 1),
      value |-> IF eq = 0 THEN <<>> ELSE SubSeq(trimmed, eq + 1, Len(trimmed))]

\* readFromCookie that looks for the key as given
readFromCookieOfRawKey(cfg, hostname, jar, key) ==
  LET cookieName == cfg.cookiePrefix \o key
      cookies == DocumentCookie(jar, hostname)
      hits == {i \in 1..Len(cookies) :
                 SplitPiece(cookies[i]).eq # 0 /\ SplitPiece(cookies[i]).name = cookieName}
  IN IF KeyRejected(sanitizeKey(key)) THEN NULL
     ELSE IF hits = {} THEN NULL
     ELSE LET value == SplitPiece(cookies[Min(hits)]).value
          IN IF DecodeThrows(value) THEN NULL ELSE decodeURIComponent(value)

\* readFromCookie(key): the decoded value of the first cookie named
\* cookiePrefix + sanitizedKey, or NULL
readFromCookie(cfg, hostname, jar, key) ==
  LET sanitizedKey == sanitizeKey(key)
      cookieName == cfg.cookiePrefix \o sanitizedKey
      cookies == DocumentCookie(jar, hostname)
      hits == {i \in 1..Len(cookies) :
                 SplitPiece(cookies[i]).eq # 0 /\ SplitPiece(cookies[i]).name = cookieName}
  IN IF KeyRejected(sanitizedKey) THEN NULL
     ELSE IF hits = {} THEN NULL
     ELSE LET value == SplitPiece(cookies[Min(hits)]).value
          IN IF DecodeThrows(value) THEN NULL ELSE decodeURIComponent(value)

\* syncData[key] = value on an object kept as a sequence of [key, value] in
\* insertion order
SetProperty(obj, key, value) ==
  LET hits == {i \in 1..Len(obj) : obj[i].key = key}
  IN IF hits = {} THEN Append(obj, [key |-> key, value |-> value])
     ELSE [obj EXCEPT ![Min(hits)].value = value]

\* the loop of getAllSyncCookies over the pieces from place i on, with the
\* entries gathered so far; a decodeURIComponent that throws ends the loop
RECURSIVE GatherSyncCookies(_, _, _, _)
GatherSyncCookies(cfg, cookies, i, syncData) ==
  IF i > Len(cookies) THEN syncData
  ELSE LET c == SplitPiece(cookies[i])
       IN IF c.eq = 0 THEN GatherSyncCookies(cfg, cookies, i + 1, syncData)
          ELSE IF c.name # <<>> /\ StartsWith(c.name, cfg.cookiePrefix)
          THEN IF DecodeThrows(c.value) THEN syncData
               ELSE GatherSyncCookies(cfg, cookies, i + 1,
                      SetProperty(syncData,
                        SubSeq(c.name, Len(cfg.cookiePrefix) + 1, Len(c.name)),
                        decodeURIComponent(c.value)))
          ELSE GatherSyncCookies(cfg, cookies, i + 1, syncData)

\* getAllSyncCookies(): the sequence of [key, value], in the order of
\* Object.entries (no key of the model is an array index)
getAllSyncCookies(cfg, hostname, jar) ==
  GatherSyncCookies(cfg, DocumentCookie(jar, hostname), 1, <<>>)

\* the count and the jar of clearAllSyncCookies after a deleteFromCookie gave r
Cleared(acc, r) ==
  [count |-> IF r.ok THEN acc.count + 1 ELSE acc.count, jar |-> r.jar]

\* the loop of clearAllSyncCookies: [count, jar]
RECURSIVE ClearLoop(_, _, _, _, _)
ClearLoop(cfg, hostname, cookies, i, acc) ==
  IF i > Len(cookies) THEN acc
  ELSE ClearLoop(cfg, hostname, cookies, i + 1,
         Cleared(acc, deleteFromCookie(cfg, hostname, acc.jar, cookies[i].key)))

\* clearAllSyncCookies(): [count: what it returns, jar: the jar afterwards]
clearAllSyncCookies(cfg, hostname, jar) ==
  ClearLoop(cfg, hostname, getAllSyncCookies(cfg, hostname, jar), 1,
            [count |-> 0, jar |-> jar])

\* -------------------------------------------------------------- shouldSync

\* pattern.test(key) for a RegExp entry: [result, lastIndex afterwards].
\* Without the global flag lastIndex is neither read nor written.  With it
\* the search starts at lastIndex, a match leaves lastIndex at its end and a
\* failure leaves 0; /^src/ matches at position 0 only.
RegExpTest(pattern, key) ==
  LET whole == IF pattern.anchor = "^" THEN StartsWith(key, pattern.src)
               ELSE EndsWith(key, pattern.src)
      from == IF pattern.anchor = "^" THEN 0 ELSE Len(key) - Len(pattern.src)
      till == IF pattern.anchor = "^" THEN Len(pattern.src) ELSE Len(key)
  IN IF ~pattern.global THEN [result |-> whole, lastIndex |-> pattern.lastIndex]
     ELSE IF pattern.lastIndex <= Len(key) /\ whole /\ pattern.lastIndex <= from
     THEN [result |-> TRUE, lastIndex |-> till]
     ELSE [result |-> FALSE, lastIndex |-> 0]

\* !key
Falsy(key) == key = NULL \/ key = UNDEFINED \/ key = <<>>

\* CONFIG.syncKeys.some(...) from entry i on: [result, items afterwards]
RECURSIVE SomeMatches(_, _, _)
SomeMatches(items, i, key) ==
  IF i > Len(items) THEN [result |-> FALSE, items |-> items]
  ELSE IF items[i].type = "string"
  THEN IF items[i].src = key THEN [result |-> TRUE, items |-> items]
       ELSE SomeMatches(items, i + 1, key)
  ELSE IF items[i].type = "regexp"
  THEN LET t == RegExpTest(items[i], key)
           after == [items EXCEPT ![i].lastIndex = t.lastIndex]
       IN IF t.result THEN [result |-> TRUE, items |-> after]
          ELSE SomeMatches(after, i + 1, key)
  ELSE SomeMatches(items, i + 1, key)

\* shouldSync(key) under syncKeys: [result, syncKeys afterwards, threw].
\* CONFIG.syncKeys.length of a value that is no array throws TypeError (the
\* one such value of the model is null).
shouldSync(syncKeys, key) ==
  IF Falsy(key) THEN [result |-> FALSE, syncKeys |-> syncKeys, threw |-> FALSE]
  ELSE IF ~syncKeys.isArray THEN [result |-> FALSE, syncKeys |-> syncKeys, threw |-> TRUE]
  ELSE IF Len(syncKeys.items) = 0
  THEN [result |-> TRUE, syncKeys |-> syncKeys, threw |-> FALSE]
  ELSE LET r == SomeMatches(syncKeys.items, 1, key)
       IN [result |-> r.result, syncKeys |-> ArrayOf(r.items), threw |-> FALSE]

\* ----------------------------------------------------------------- Storage

\* A Storage object is a function from its keys to their values.

\* the string a native Storage method makes of an argument
StringOf(v) ==
  IF v = NULL THEN <<"n", "u", "l", "l">>
  ELSE IF v = UNDEFINED THEN <<"u", "n", "d", "e", "f", "i", "n", "e", "d">>
  ELSE v

\* storage.getItem(key)
GetItem(storage, key) ==
  IF StringOf(key) \in DOMAIN storage THEN storage[StringOf(key)] ELSE NULL

\* the native Storage.prototype.setItem, when it does not throw
NativeSetItem(storage, key, value) ==
  [k \in DOMAIN storage \cup {StringOf(key)} |->
     IF k = StringOf(key) THEN StringOf(value) ELSE storage[k]]

\* the native Storage.prototype.removeItem
NativeRemoveItem(storage, key) ==
  [k \in DOMAIN storage \ {StringOf(key)} |-> storage[k]]

\* the native Storage.prototype.clear
NativeClear == <<>>

\* getStorageObjects(): the names of the Storage objects of CONFIG.storageType
getStorageObjects(cfg) ==
  (IF cfg.storageType \in {"localStorage", "both"} THEN <<"localStorage">> ELSE <<>>)
  \o (IF cfg.storageType \in {"sessionStorage", "both"} THEN <<"sessionStorage">> ELSE <<>>)

\* shouldSyncStorage that looks at CONFIG.storageType alone
shouldSyncStorageOfAnyType(cfg, storageName) ==
  cfg.storageType \in {"localStorage", "sessionStorage", "both"}

\* shouldSyncStorage(storage), and shouldSyncThisStorage of the listener
shouldSyncStorage(cfg, storageName) ==
  \/ storageName = "localStorage" /\ cfg.storageType \in {"localStorage", "both"}
  \/ storageName = "sessionStorage" /\ cfg.storageType \in {"sessionStorage", "both"}

\* ------------------------------------------------- what a call acts on

\* The part of the browser one call of the library reads and writes, as a
\* record w: jar (the cookie jar), local and session (the page's
\* localStorage and sessionStorage), cfg (CONFIG), hostname
\* (window.location.hostname), missing (the primitive the browser lacks),
\* and what the call did so far: threw (an
\* exception leaves it), nativeCalls (calls of a native Storage method that
\* returned), cookieWrites and cookieDeletes (writeToCookie and
\* deleteFromCookie calls that assigned document.cookie), events (the
\* storage events its native calls raised for the other documents of the
\* origin).

StorageOf(w, storageName) == IF storageName = "localStorage" THEN w.local ELSE w.session

WithStorage(w, storageName, storage) ==
  IF storageName = "localStorage" THEN [w EXCEPT !.local = storage]
  ELSE [w EXCEPT !.session = storage]

\* The storage event a native call raises when it changed localStorage: the
\* other documents of the origin get it, never the one that made the call.
\* sessionStorage belongs to one page here, so its changes raise none.
Raised(w, storageName, key, newValue, changed) ==
  IF storageName = "localStorage" /\ changed
  THEN [w EXCEPT !.events = Append(@, [storageName |-> storageName, key |-> key,
                                      newValue |-> newValue])]
  ELSE w

\* w after a writeToCookie or a deleteFromCookie that gave r
Wrote(w, r) ==
  [w EXCEPT !.jar = r.jar, !.cookieWrites = IF r.ok THEN @ + 1 ELSE @]

Deleted(w, r) ==
  [w EXCEPT !.jar = r.jar, !.cookieDeletes = IF r.ok THEN @ + 1 ELSE @]

\* writeToCookie(key, value) as a step of a call
CallWriteToCookie(w, key, value) ==
  Wrote(w, writeToCookie(w.cfg, w.hostname, w.jar, key, value))

\* deleteFromCookie(key) as a step of a call
CallDeleteFromCookie(w, key) ==
  Deleted(w, deleteFromCookie(w.cfg, w.hostname, w.jar, key))

\* shouldSync(key) as a step of a call: w afterwards (a RegExp entry keeps
\* its lastIndex; threw is set when shouldSync throws)
AfterShouldSync(w, key) ==
  [w EXCEPT !.cfg.syncKeys = shouldSync(w.cfg.syncKeys, key).syncKeys,
            !.threw = shouldSync(w.cfg.syncKeys, key).threw]

\* ------------------------------- Storage.prototype.setItem/removeItem/clear

\* Storage.prototype.setItem is the native function under some number of
\* the library's wrappers: setupLocalChangeDetection assigns a wrapper that
\* calls what originalSetItem holds.  A function of depth 0 is the native
\* one, a function of depth n + 1 is the wrapper around one of depth n; the
\* same holds for removeItem and clear, which are always replaced together.
\* quota: the native setItem throws (QuotaExceededError, SecurityError);
\* fault: the native removeItem or clear throws (SecurityError).

\* the wrapper's part of setItem after the wrapped function left inner
SetItemWrapper(inner, storageName, key, value) ==
  IF inner.threw THEN inner
  ELSE IF ~shouldSyncStorage(inner.cfg, storageName) THEN inner
  ELSE IF shouldSync(inner.cfg.syncKeys, key).threw THEN AfterShouldSync(inner, key)
  ELSE IF shouldSync(inner.cfg.syncKeys, key).result
  THEN CallWriteToCookie(AfterShouldSync(inner, key), key, value)
  ELSE AfterShouldSync(inner, key)

\* the function of this depth called as storage.setItem(key, value)
RECURSIVE InvokeSetItem(_, _, _, _, _, _)
InvokeSetItem(depth, w, storageName, key, value, quota) ==
  IF depth = 0
  THEN IF quota THEN [w EXCEPT !.threw = TRUE]
       ELSE Raised([WithStorage(w, storageName,
                                NativeSetItem(StorageOf(w, storageName), key, value))
                      EXCEPT !.nativeCalls = @ + 1],
                   storageName, StringOf(key), StringOf(value),
                   GetItem(StorageOf(w, storageName), key) # StringOf(value))
  ELSE SetItemWrapper(InvokeSetItem(depth - 1, w, storageName, key, value, quota),
                      storageName, key, value)

\* a wrapper of removeItem that does not ask whether the storage is in scope
RemoveItemWrapperOfAnyStorage(inner, storageName, key) ==
  IF inner.threw THEN inner
  ELSE IF shouldSync(inner.cfg.syncKeys, key).threw THEN AfterShouldSync(inner, key)
  ELSE IF shouldSync(inner.cfg.syncKeys, key).result
  THEN CallDeleteFromCookie(AfterShouldSync(inner, key), key)
  ELSE AfterShouldSync(inner, key)

\* the wrapper's part of removeItem after the wrapped function left inner
RemoveItemWrapper(inner, storageName, key) ==
  IF inner.threw THEN inner
  ELSE IF ~shouldSyncStorage(inner.cfg, storageName) THEN inner
  ELSE IF shouldSync(inner.cfg.syncKeys, key).threw THEN AfterShouldSync(inner, key)
  ELSE IF shouldSync(inner.cfg.syncKeys, key).result
  THEN CallDeleteFromCookie(AfterShouldSync(inner, key), key)
  ELSE AfterShouldSync(inner, key)

\* the function of this depth called as storage.removeItem(key)
RECURSIVE InvokeRemoveItem(_, _, _, _, _)
InvokeRemoveItem(depth, w, storageName, key, fault) ==
  IF depth = 0
  THEN IF fault THEN [w EXCEPT !.threw = TRUE]
       ELSE Raised([WithStorage(w, storageName,
                                NativeRemoveItem(StorageOf(w, storageName), key))
                      EXCEPT !.nativeCalls = @ + 1],
                   storageName, StringOf(key), NULL,
                   GetItem(StorageOf(w, storageName), key) # NULL)
  ELSE RemoveItemWrapper(InvokeRemoveItem(depth - 1, w, storageName, key, fault),
                         storageName, key)

\* keys.forEach((key) => { if (shouldSync(key)) deleteFromCookie(key) }) of
\* the wrapped clear, from place i on
RECURSIVE DeleteEach(_, _, _)
DeleteEach(w, keys, i) ==
  IF i > Len(keys) THEN w
  ELSE IF shouldSync(w.cfg.syncKeys, keys[i]).threw THEN AfterShouldSync(w, keys[i])
  ELSE DeleteEach(IF shouldSync(w.cfg.syncKeys, keys[i]).result
                  THEN CallDeleteFromCookie(AfterShouldSync(w, keys[i]), keys[i])
                  ELSE AfterShouldSync(w, keys[i]),
                  keys, i + 1)

\* a wrapper of clear that deletes the cookies whatever the wrapped function
\* did
ClearWrapperDeletingAnyway(inner, storageName, keys) ==
  IF shouldSyncStorage(inner.cfg, storageName)
  THEN [DeleteEach([inner EXCEPT !.threw = FALSE], keys, 1) EXCEPT !.threw = inner.threw]
  ELSE inner

\* a wrapper of clear that does not ask whether the storage is in scope
ClearWrapperOfAnyStorage(inner, storageName, keys) ==
  IF inner.threw THEN inner ELSE DeleteEach(inner, keys, 1)

\* the wrapper's part of clear after the wrapped function left inner
ClearWrapper(inner, storageName, keys) ==
  IF inner.threw THEN inner
  ELSE IF shouldSyncStorage(inner.cfg, storageName) THEN DeleteEach(inner, keys, 1)
  ELSE inner

\* the function of this depth called as storage.clear(); keys is
\* Object.keys(storage) in the order the browser gives them
RECURSIVE InvokeClear(_, _, _, _, _)
InvokeClear(depth, w, storageName, keys, fault) ==
  IF depth = 0
  THEN IF fault THEN [w EXCEPT !.threw = TRUE]
       ELSE Raised([WithStorage(w, storageName, NativeClear) EXCEPT !.nativeCalls = @ + 1],
                   storageName, NULL, NULL, StorageOf(w, storageName) # <<>>)
  ELSE ClearWrapper(InvokeClear(depth - 1, w, storageName, keys, fault), storageName, keys)

\* ------------------------------------------------- the listener of storage

\* a listener that clears the library's cookies when a storage was cleared
StorageListenerClearing(w, event) ==
  IF ~shouldSyncStorage(w.cfg, event.storageName) THEN w
  ELSE IF event.key = NULL
  THEN [w EXCEPT !.jar = clearAllSyncCookies(w.cfg, w.hostname, w.jar).jar,
                 !.cookieDeletes = @ + clearAllSyncCookies(w.cfg, w.hostname, w.jar).count]
  ELSE IF Falsy(event.key) THEN w
  ELSE IF shouldSync(w.cfg.syncKeys, event.key).threw THEN AfterShouldSync(w, event.key)
  ELSE IF ~shouldSync(w.cfg.syncKeys, event.key).result THEN AfterShouldSync(w, event.key)
  ELSE IF event.newValue = NULL
  THEN CallDeleteFromCookie(AfterShouldSync(w, event.key), event.key)
  ELSE CallWriteToCookie(AfterShouldSync(w, event.key), event.key, event.newValue)

\* a listener that does not ask whether the storage is in scope
StorageListenerOfAnyStorage(w, event) ==
  IF Falsy(event.key) THEN w
  ELSE IF shouldSync(w.cfg.syncKeys, event.key).threw THEN AfterShouldSync(w, event.key)
  ELSE IF ~shouldSync(w.cfg.syncKeys, event.key).result THEN AfterShouldSync(w, event.key)
  ELSE IF event.newValue = NULL
  THEN CallDeleteFromCookie(AfterShouldSync(w, event.key), event.key)
  ELSE CallWriteToCookie(AfterShouldSync(w, event.key), event.key, event.newValue)

\* a listener that also stores the new value in the storage of its page
StorageListenerStoring(w, event) ==
  IF ~shouldSyncStorage(w.cfg, event.storageName) THEN w
  ELSE IF Falsy(event.key) THEN w
  ELSE IF shouldSync(w.cfg.syncKeys, event.key).threw THEN AfterShouldSync(w, event.key)
  ELSE IF ~shouldSync(w.cfg.syncKeys, event.key).result THEN AfterShouldSync(w, event.key)
  ELSE IF event.newValue = NULL
  THEN CallDeleteFromCookie(AfterShouldSync(w, event.key), event.key)
  ELSE InvokeSetItem(1, AfterShouldSync(w, event.key), event.storageName, event.key,
                     event.newValue \o <<"!">>, FALSE)

\* The listener setupStorageListener adds, called with this event
\* [storageName: which of the storages event.storageArea is, key, newValue].
StorageListener(w, event) ==
  IF ~shouldSyncStorage(w.cfg, event.storageName) THEN w
  ELSE IF Falsy(event.key) THEN w
  ELSE IF shouldSync(w.cfg.syncKeys, event.key).threw THEN AfterShouldSync(w, event.key)
  ELSE IF ~shouldSync(w.cfg.syncKeys, event.key).result THEN AfterShouldSync(w, event.key)
  ELSE IF event.newValue = NULL
  THEN CallDeleteFromCookie(AfterShouldSync(w, event.key), event.key)
  ELSE CallWriteToCookie(AfterShouldSync(w, event.key), event.key, event.newValue)

\* window dispatches the event to the listeners the library added, one
\* after the other; an exception of a listener is reported and the next
\* listener is called
RECURSIVE DispatchStorageEvent(_, _, _)
DispatchStorageEvent(w, event, listeners) ==
  IF listeners = 0 THEN w
  ELSE DispatchStorageEvent([StorageListener(w, event) EXCEPT !.threw = FALSE],
                            event, listeners - 1)

\* ---------------------------------------------------------- validateConfig

\* the filter of validateConfig over the entries of syncKeys
ValidRule(r) == (r.type = "string" /\ Len(r.src) > 0) \/ r.type = "regexp"

\* validateConfig(): [cfg: CONFIG afterwards, isValid: what it returns]
validateConfig(cfg) ==
  LET badType == cfg.storageType \notin {"localStorage", "sessionStorage", "both"}
      badOverwrite == ~IsBoolean(cfg.overwriteExisting)
      badDebug == ~IsBoolean(cfg.debug)
      badPrefix == ~IsString(cfg.cookiePrefix) \/ Len(cfg.cookiePrefix) = 0
      badMaxAge == cfg.cookieMaxAge.type # "number" \/ NotAboveZero(cfg.cookieMaxAge)
      badKeys == ~cfg.syncKeys.isArray
  IN [cfg |->
        [storageType |-> IF badType THEN "localStorage" ELSE cfg.storageType,
         overwriteExisting |-> IF badOverwrite THEN "false" ELSE cfg.overwriteExisting,
         debug |-> IF badDebug THEN "false" ELSE cfg.debug,
         cookiePrefix |-> IF badPrefix THEN FallbackCookiePrefix ELSE cfg.cookiePrefix,
         cookieMaxAge |-> IF badMaxAge THEN Number(DefaultCookieMaxAge) ELSE cfg.cookieMaxAge,
         syncKeys |-> IF badKeys THEN ArrayOf(<<>>)
                      ELSE ArrayOf(SelectSeq(cfg.syncKeys.items, ValidRule))],
      isValid |-> ~(badType \/ badOverwrite \/ badDebug \/ badPrefix \/ badMaxAge \/ badKeys)]

\* -------------------------------------------------- isEnvironmentSupported

TestKey == <<"_", "_", "s", "t", "o", "r", "a", "g", "e", "_", "s", "y", "n", "c",
             "_", "t", "e", "s", "t", "_", "_">>
TestValue == <<"t", "e", "s", "t">>

\* what isEnvironmentSupported returns when its write test left w: FALSE
\* from the catch, with the exception gone
WriteTested(w) ==
  IF w.threw THEN [supported |-> FALSE, w |-> [w EXCEPT !.threw = FALSE]]
  ELSE [supported |-> TRUE, w |-> w]

\* localStorage.removeItem(testKey) after the setItem of the test left w
RemoveTestKey(w, depth) ==
  IF w.threw THEN w ELSE InvokeRemoveItem(depth, w, "localStorage", TestKey, FALSE)

\* the primitives a page's browser may lack (w.missing; "none": it has all)
Primitives == {"Storage", "localStorage", "sessionStorage", "document.cookie"}

\* one of the typeof checks of isEnvironmentSupported fails: Storage,
\* localStorage or document.cookie is undefined, or sessionStorage is while
\* CONFIG.storageType asks for it
LacksRequired(w) ==
  \/ w.missing \in {"Storage", "localStorage", "document.cookie"}
  \/ w.missing = "sessionStorage" /\ w.cfg.storageType \in {"sessionStorage", "both"}

\* isEnvironmentSupported(): the typeof checks, then the write test, made
\* through what Storage.prototype.setItem and removeItem are at the call
\* (functions of this depth).  [supported: what it returns, w: the browser
\* afterwards]
isEnvironmentSupported(w, depth, quota) ==
  IF LacksRequired(w) THEN [supported |-> FALSE, w |-> w]
  ELSE WriteTested(RemoveTestKey(
         InvokeSetItem(depth, w, "localStorage", TestKey, TestValue, quota), depth))

\* ----------------------------------------------------- syncCookiesToStorage

NoReport == [syncedCount |-> -1, syncedKeys |-> <<>>, skippedKeys |-> <<>>, totalCookies |-> -1]

\* SyncWritten without the catch around the write
SyncWrittenRethrowing(a, written, storageName, key, existingValue) ==
  IF written.threw THEN [a EXCEPT !.w = written]
  ELSE [a EXCEPT !.w = written,
                 !.syncCount = @ + 1,
                 !.syncedKeys = Append(@, [key |-> key, storageType |-> storageName,
                                           overwritten |-> existingValue # NULL])]

\* the counting of one write of the replay that left written
SyncWritten(a, written, storageName, key, existingValue) ==
  IF written.threw THEN [a EXCEPT !.w = [written EXCEPT !.threw = FALSE]]
  ELSE [a EXCEPT !.w = written,
                 !.syncCount = @ + 1,
                 !.syncedKeys = Append(@, [key |-> key, storageType |-> storageName,
                                           overwritten |-> existingValue # NULL])]

\* SyncMatched without the test of existingValue
SyncMatchedOverExisting(a, m, original, storageName, key, value, existingValue, quotaKeys) ==
  IF value # <<>>
  THEN SyncWritten(a, InvokeSetItem(original, m, storageName, key, value, key \in quotaKeys),
                   storageName, key, existingValue)
  ELSE [a EXCEPT !.w = m]

\* SyncMatched without the test of value
SyncMatchedEmptyToo(a, m, original, storageName, key, value, existingValue, quotaKeys) ==
  IF Truthy(m.cfg.overwriteExisting) \/ existingValue = NULL
  THEN SyncWritten(a, InvokeSetItem(original, m, storageName, key, value, key \in quotaKeys),
                   storageName, key, existingValue)
  ELSE IF existingValue # NULL /\ ~Truthy(m.cfg.overwriteExisting)
  THEN [a EXCEPT !.w = m,
                 !.skippedKeys = Append(@, [key |-> key, storageType |-> storageName,
                                            reason |-> "exists"])]
  ELSE [a EXCEPT !.w = m]

\* the inner loop's body for a key that passed shouldSync, which left m
SyncMatched(a, m, original, storageName, key, value, existingValue, quotaKeys) ==
  IF (Truthy(m.cfg.overwriteExisting) \/ existingValue = NULL) /\ value # <<>>
  THEN SyncWritten(a, InvokeSetItem(original, m, storageName, key, value, key \in quotaKeys),
                   storageName, key, existingValue)
  ELSE IF existingValue # NULL /\ ~Truthy(m.cfg.overwriteExisting)
  THEN [a EXCEPT !.w = m,
                 !.skippedKeys = Append(@, [key |-> key, storageType |-> storageName,
                                            reason |-> "exists"])]
  ELSE [a EXCEPT !.w = m]

\* The body of the inner loop for one [key, value] of syncData and one
\* storage.  a is [w, syncCount, syncedKeys, skippedKeys]; original is the
\* depth of the function originalSetItem holds; quotaKeys are the keys whose
\* native write throws.
SyncEntry(a, original, storageName, key, value, quotaKeys) ==
  IF shouldSync(a.w.cfg.syncKeys, key).threw \/ ~shouldSync(a.w.cfg.syncKeys, key).result
  THEN [a EXCEPT !.w = AfterShouldSync(a.w, key)]
  ELSE SyncMatched(a, AfterShouldSync(a.w, key), original, storageName, key, value,
                   GetItem(StorageOf(a.w, storageName), key), quotaKeys)

\* the loops of syncCookiesToStorage from storage si and entry ei on
RECURSIVE SyncLoop(_, _, _, _, _, _, _)
SyncLoop(a, original, storages, si, syncData, ei, quotaKeys) ==
  IF a.w.threw \/ si > Len(storages) THEN a
  ELSE IF ei > Len(syncData)
  THEN SyncLoop(a, original, storages, si + 1, syncData, 1, quotaKeys)
  ELSE SyncLoop(SyncEntry(a, original, storages[si], syncData[ei].key,
                          syncData[ei].value, quotaKeys),
                original, storages, si, syncData, ei + 1, quotaKeys)

\* SyncReport whose totalCookies counts the writes
SyncReportOfWritten(a, totalCookies) ==
  [w |-> a.w,
   report |-> IF a.w.threw THEN NoReport
              ELSE [syncedCount |-> a.syncCount,
                    syncedKeys |-> a.syncedKeys,
                    skippedKeys |-> a.skippedKeys,
                    totalCookies |-> a.syncCount]]

\* what syncCookiesToStorage leaves and reports when its loops ended in a
SyncReport(a, totalCookies) ==
  [w |-> a.w,
   report |-> IF a.w.threw THEN NoReport
              ELSE [syncedCount |-> a.syncCount,
                    syncedKeys |-> a.syncedKeys,
                    skippedKeys |-> a.skippedKeys,
                    totalCookies |-> totalCookies]]

\* syncCookiesToStorage() once getAllSyncCookies() gave syncData
SyncAll(w, original, syncData, quotaKeys) ==
  SyncReport(SyncLoop([w |-> w, syncCount |-> 0, syncedKeys |-> <<>>, skippedKeys |-> <<>>],
                      original, getStorageObjects(w.cfg), 1, syncData, 1, quotaKeys),
             Len(syncData))

\* syncCookiesToStorage that writes with storage.setItem, the wrapper
syncCookiesToStorageBySetItem(w, original, quotaKeys) ==
  SyncAll(w, original + 1, getAllSyncCookies(w.cfg, w.hostname, w.jar), quotaKeys)

\* syncCookiesToStorage(): [w: the browser afterwards (w.threw: an exception
\* left the function before the report), report: the detail of the
\* storagesynccomplete event it dispatches]
syncCookiesToStorage(w, original, quotaKeys) ==
  SyncAll(w, original, getAllSyncCookies(w.cfg, w.hostname, w.jar), quotaKeys)

\* ------------------------------------------------------------ the pages

\* the most operations in one behaviour
MaxOps == 3

\* The pages of one browser, each a document that loads the library once:
\* two on different subdomains, a second tab of the first one's origin, and
\* pages of the domain itself, of localhost and of an IPv4 address.
Pages == {"p1", "p2", "p3", "p4", "p5", "p6"}

\* window.location.hostname of each page
HostOf ==
  [p \in Pages |->
     CASE p = "p2" -> <<"admin", "example", "com">>
       [] p = "p4" -> <<"example", "com">>
       [] p = "p5" -> <<"localhost">>
       [] p = "p6" -> <<"192", "168", "0", "1">>
       [] OTHER -> <<"app", "example", "com">>]

\* the two tabs of one origin
Tabs == {"p1", "p3"}

Origins == {HostOf[p] : p \in Pages}

\* the page whose application the model drives; the other one only loads
AppPages == {"p1"}

\* the storage keys, the values and the configurations the application uses
Keys == {<<"c">>, <<"d", " ", "e">>}
Values == {<<"v">>, <<>>}
SyncKeyChoices ==
  {ArrayOf(<<>>),
   ArrayOf(<<StringRule(<<"c">>)>>),
   ArrayOf(<<RegExpRule("^", <<"c">>, FALSE)>>),
   ArrayOf(<<RegExpRule("^", <<"c">>, TRUE)>>)}
StorageTypeChoices == {"localStorage", "sessionStorage", "both"}
OverwriteChoices == {"false", "true"}

VARIABLES
  jar,            \* the browser's cookie jar
  localStorage,   \* localStorage of each origin
  sessionStorage, \* sessionStorage of each page
  tab,            \* the library's state in each page
  last,           \* what the last operation was and did
  ops             \* the operations the behaviour may still take

vars == <<jar, localStorage, sessionStorage, tab, last, ops>>

\* The fields of tab[p]:
\*   loaded               the library's script has run
\*   CONFIG               the CONFIG object
\*   protoSetItem         the depth of the function Storage.prototype.setItem
\*                        holds (as removeItem and clear)
\*   originalSetItem      the depth of the function originalSetItem holds
\*   storageListeners     the listeners of "storage" the library added
\*   completeListener     the library's listener of "storagesynccomplete"
\*                        is added
\*   isInitialized        the variable isInitialized
\*   syncCompleteResolve  the variable syncCompleteResolve is not null
\*   promise              syncCompletePromise: its state and value
\*   passes               the replay passes that ended with a report
\*   firstReport          the report of the first of them
\*   missing              the primitive the page's browser lacks, or "none"
\*   configAssigned       the application has assigned an object of its own
\*                        to StorageSync.config, which until then holds the
\*                        CONFIG object
\*   config               that object
\*   inbox                the storage events the browser has raised for the
\*                        page's document and not yet dispatched
NoTab ==
  [loaded |-> FALSE, CONFIG |-> CONFIG, protoSetItem |-> 0, originalSetItem |-> 0,
   storageListeners |-> 0, completeListener |-> FALSE, isInitialized |-> FALSE,
   syncCompleteResolve |-> FALSE,
   promise |-> [state |-> "none", value |-> NoReport],
   passes |-> 0, firstReport |-> NoReport,
   missing |-> "none", configAssigned |-> FALSE, config |-> CONFIG, inbox |-> <<>>]

\* The fields of last: the operation op of page, its arguments (storageName,
\* key, value), whether a fault was injected (faulty: a native write that
\* throws), whether the key passed shouldSync as CONFIG was at the call
\* (matched), how the call ended (threw, returned), what it did (nativeCalls,
\* cookieWrites, cookieDeletes; replayCookieOps: the cookie writes and
\* deletes of the replay pass in it), and the report it dispatched.  For an
\* replay pass: quotaKeys (the keys whose native write throws in it).  For an
\* init(): validated (it reached validateConfig), configValid (what
\* validateConfig returned) and repaired (validateConfig changed CONFIG).
\* For a deleteFromCookie: afterWrite (the operation before it was a
\* writeToCookie of the same key that returned true) and wroteOn (the page of
\* the writeToCookie of the same key that returned true just before it, or
\* "").  For a clear: keys (Object.keys of the storage before it).
NoLast ==
  [op |-> "none", page |-> "", storageName |-> "", key |-> <<>>, value |-> <<>>,
   faulty |-> FALSE, quotaKeys |-> {}, matched |-> FALSE, validated |-> FALSE,
   configValid |-> FALSE,
   repaired |-> FALSE, afterWrite |-> FALSE, wroteOn |-> "", keys |-> <<>>,
   threw |-> FALSE, returned |-> FALSE, nativeCalls |-> 0, cookieWrites |-> 0,
   cookieDeletes |-> 0, replayCookieOps |-> 0, dispatched |-> 0, report |-> NoReport]

\* the browser as page p's library sees it at the start of a call
World(p) ==
  [jar |-> jar, local |-> localStorage[HostOf[p]], session |-> sessionStorage[p],
   cfg |-> tab[p].CONFIG, hostname |-> HostOf[p], missing |-> tab[p].missing,
   threw |-> FALSE, nativeCalls |-> 0, cookieWrites |-> 0, cookieDeletes |-> 0,
   events |-> <<>>]

\* the browser after a call of page p's library that left w, the page's
\* state becoming t; the storage events of the call wait in the inbox of
\* every other document of the origin that is open
Commit(p, w, t) ==
  /\ jar' = w.jar
  /\ localStorage' = [localStorage EXCEPT ![HostOf[p]] = w.local]
  /\ sessionStorage' = [sessionStorage EXCEPT ![p] = w.session]
  /\ tab' = [q \in Pages |->
              IF q = p THEN [t EXCEPT !.CONFIG = w.cfg]
              ELSE IF HostOf[q] = HostOf[p] /\ tab[q].loaded
              THEN [tab[q] EXCEPT !.inbox = @ \o w.events]
              ELSE tab[q]]
  /\ ops' = ops - 1

\* what a call did, for last
Did(op, p, w) ==
  [NoLast EXCEPT !.op = op, !.page = p, !.threw = w.threw,
                 !.nativeCalls = w.nativeCalls, !.cookieWrites = w.cookieWrites,
                 !.cookieDeletes = w.cookieDeletes]

\* dispatchSyncCompleteEvent with a listener that resolves on every event
dispatchSyncCompleteEventEveryTime(t, detail) ==
  IF t.completeListener
  THEN [t EXCEPT !.promise = [state |-> "resolved", value |-> detail],
                 !.syncCompleteResolve = FALSE]
  ELSE t

\* window.dispatchEvent of a storagesynccomplete event with this detail: the
\* library's listener, once added, resolves the promise when
\* syncCompleteResolve is set, and sets it to null
dispatchSyncCompleteEvent(t, detail) ==
  IF t.completeListener /\ t.syncCompleteResolve
  THEN [t EXCEPT !.promise = [state |-> "resolved", value |-> detail],
                 !.syncCompleteResolve = FALSE]
  ELSE t

\* the bookkeeping of a pass that ended with this report
Passed(t, report) ==
  [t EXCEPT !.passes = @ + 1,
            !.firstReport = IF t.passes = 0 THEN report ELSE @]

\* setupStorageListener(): one more listener of "storage"
setupStorageListener(t) == [t EXCEPT !.storageListeners = @ + 1]

\* setupLocalChangeDetection that captures the functions it wraps when it runs
setupLocalChangeDetectionRewrap(t) ==
  [t EXCEPT !.originalSetItem = t.protoSetItem, !.protoSetItem = t.protoSetItem + 1]

\* setupLocalChangeDetection(): Storage.prototype.setItem, removeItem and
\* clear become wrappers around the functions captured at module load
setupLocalChangeDetection(t) == [t EXCEPT !.protoSetItem = t.originalSetItem + 1]

\* the end of init() after validateConfig() returned configValid, having
\* changed CONFIG or not (repaired), and the replay gave sync; before is the
\* number of cookie writes and deletes made before the replay
Initialized(t, sync, before, configValid, repaired) ==
  IF sync.w.threw
  THEN [ok |-> FALSE, w |-> [sync.w EXCEPT !.threw = FALSE], t |-> t,
        report |-> NoReport, dispatched |-> 0,
        replayCookieOps |-> sync.w.cookieWrites + sync.w.cookieDeletes - before,
        validated |-> TRUE, configValid |-> configValid, repaired |-> repaired]
  ELSE [ok |-> TRUE, w |-> sync.w,
        t |-> setupLocalChangeDetection(setupStorageListener(
                Passed(dispatchSyncCompleteEvent(t, sync.report), sync.report))),
        report |-> sync.report, dispatched |-> 1,
        replayCookieOps |-> sync.w.cookieWrites + sync.w.cookieDeletes - before,
        validated |-> TRUE, configValid |-> configValid, repaired |-> repaired]

\* init() after isEnvironmentSupported() gave env
Supported(t, env, quotaKeys) ==
  IF ~env.supported
  THEN [ok |-> FALSE, w |-> env.w, t |-> t, report |-> NoReport, dispatched |-> 0,
        replayCookieOps |-> 0, validated |-> FALSE, configValid |-> FALSE,
        repaired |-> FALSE]
  ELSE Initialized(t,
         syncCookiesToStorage([env.w EXCEPT !.cfg = validateConfig(env.w.cfg).cfg],
                              t.originalSetItem, quotaKeys),
         env.w.cookieWrites + env.w.cookieDeletes,
         validateConfig(env.w.cfg).isValid,
         validateConfig(env.w.cfg).cfg # env.w.cfg)

\* init() in page state t on browser w: [ok: what it returns, w, t, report,
\* dispatched, replayCookieOps, validated, configValid, repaired].  quota:
\* the write test of the environment
\* check throws; quotaKeys: the keys whose native write throws during the
\* replay.
init(t, w, quota, quotaKeys) ==
  Supported(t, isEnvironmentSupported(w, t.protoSetItem, quota), quotaKeys)

\* what the browser may hold from earlier visits: a cookie the library wrote
\* on a page of the domain, and a value the application stored
EarlierJars ==
  {<<>>,
   <<[name |-> DefaultCookiePrefix \o <<"c">>, value |-> <<"v">>,
      domain |-> <<"example", "com">>]>>,
   <<[name |-> DefaultCookiePrefix \o <<"c">>, value |-> <<>>,
      domain |-> <<"example", "com">>]>>}
EarlierStorages == {<<>>, [k \in {<<"c">>} |-> <<"w">>]}

\* the browser before a page of the model loads
Start ==
  /\ jar \in EarlierJars
  /\ \E s \in EarlierStorages :
       localStorage = [o \in Origins |-> IF o = HostOf["p1"] THEN s ELSE <<>>]
  /\ sessionStorage = [p \in Pages |-> <<>>]
  /\ tab = [p \in Pages |-> NoTab]
  /\ last = NoLast

Init == Start /\ ops = MaxOps

\* The script in a browser without Storage: reading Storage.prototype
\* throws ReferenceError out of the module's function, before init() and
\* before window.StorageSync is assigned.
LoadThrows(p) ==
  /\ last' = [NoLast EXCEPT !.op = "load", !.page = p, !.threw = TRUE]
  /\ ops' = ops - 1
  /\ UNCHANGED <<jar, localStorage, sessionStorage, tab>>

\* The page runs the library's script: the module captures
\* Storage.prototype.setItem, runs init(), then creates syncCompletePromise,
\* adds its listener of storagesynccomplete and assigns window.StorageSync.
Load(p, quota, quotaKeys) ==
  /\ ops > 0
  /\ ~tab[p].loaded
  /\ IF tab[p].missing = "Storage" THEN LoadThrows(p)
     ELSE \E r \in {init([tab[p] EXCEPT !.loaded = TRUE,
                                        !.originalSetItem = tab[p].protoSetItem],
                        World(p), quota, quotaKeys)} :
        /\ Commit(p, r.w,
                  [r.t EXCEPT !.isInitialized = r.ok,
                              !.promise = [state |-> "pending", value |-> NoReport],
                              !.syncCompleteResolve = TRUE,
                              !.completeListener = TRUE])
        /\ last' = [Did("load", p, r.w) EXCEPT !.returned = r.ok,
                                               !.faulty = quota \/ quotaKeys # {},
                                               !.quotaKeys = quotaKeys,
                                               !.report = r.report,
                                               !.replayCookieOps = r.replayCookieOps,
                                               !.dispatched = r.dispatched,
                                               !.validated = r.validated,
                                               !.configValid = r.configValid,
                                               !.repaired = r.repaired]

\* StorageSync.reinitialize()
Reinitialize(p, quota, quotaKeys) ==
  /\ ops > 0
  /\ tab[p].loaded
  /\ \E r \in {init(tab[p], World(p), quota, quotaKeys)} :
        /\ Commit(p, r.w, [r.t EXCEPT !.isInitialized = r.ok])
        /\ last' = [Did("reinitialize", p, r.w) EXCEPT !.returned = r.ok,
                                                       !.faulty = quota \/ quotaKeys # {},
                                                       !.quotaKeys = quotaKeys,
                                                       !.report = r.report,
                                                       !.replayCookieOps = r.replayCookieOps,
                                                       !.dispatched = r.dispatched,
                                                       !.validated = r.validated,
                                                       !.configValid = r.configValid,
                                                       !.repaired = r.repaired]

\* StorageSync.syncCookiesToStorage()
SyncCookiesToStorage(p, quotaKeys) ==
  /\ ops > 0
  /\ tab[p].loaded
  /\ \E r \in {syncCookiesToStorage(World(p), tab[p].originalSetItem, quotaKeys)} :
        /\ Commit(p, r.w,
                  IF r.w.threw THEN tab[p]
                  ELSE Passed(dispatchSyncCompleteEvent(tab[p], r.report), r.report))
        /\ last' = [Did("sync", p, r.w) EXCEPT
                      !.faulty = quotaKeys # {},
                      !.quotaKeys = quotaKeys,
                      !.report = r.report,
                      !.replayCookieOps = r.w.cookieWrites + r.w.cookieDeletes,
                      !.dispatched = IF r.w.threw THEN 0 ELSE 1]

\* storage.setItem(key, value) by the page's application
SetItem(p, storageName, key, value, quota) ==
  /\ ops > 0
  /\ \E w \in {InvokeSetItem(tab[p].protoSetItem, World(p), storageName, key, value,
                              quota)} :
        /\ Commit(p, w, tab[p])
        /\ last' = [Did("setItem", p, w) EXCEPT
                      !.storageName = storageName, !.key = key, !.value = value,
                      !.faulty = quota,
                      !.matched = shouldSync(tab[p].CONFIG.syncKeys, key).result]

\* storage.removeItem(key) by the page's application
RemoveItem(p, storageName, key, fault) ==
  /\ ops > 0
  /\ \E w \in {InvokeRemoveItem(tab[p].protoSetItem, World(p), storageName, key, fault)} :
        /\ Commit(p, w, tab[p])
        /\ last' = [Did("removeItem", p, w) EXCEPT
                      !.storageName = storageName, !.key = key, !.faulty = fault,
                      !.matched = shouldSync(tab[p].CONFIG.syncKeys, key).result]

\* the orders Object.keys may give the keys of a Storage object
KeyOrders(storage) ==
  {ks \in [1..Cardinality(DOMAIN storage) -> DOMAIN storage] :
     \A i, j \in DOMAIN ks : i # j => ks[i] # ks[j]}

\* storage.clear() by the page's application
Clear(p, storageName, fault) ==
  /\ ops > 0
  /\ \E keys \in KeyOrders(StorageOf(World(p), storageName)) :
       \E w \in {InvokeClear(tab[p].protoSetItem, World(p), storageName, keys, fault)} :
          /\ Commit(p, w, tab[p])
          /\ last' = [Did("clear", p, w) EXCEPT !.storageName = storageName,
                                                !.faulty = fault, !.keys = keys]

\* The application assigns a field of StorageSync.config, which holds the
\* CONFIG object.
SetSyncKeys(p, syncKeys) ==
  /\ ops > 0
  /\ tab[p].loaded
  /\ ~tab[p].configAssigned
  /\ tab[p].CONFIG.syncKeys # syncKeys
  /\ tab' = [tab EXCEPT ![p].CONFIG.syncKeys = syncKeys]
  /\ last' = [NoLast EXCEPT !.op = "config", !.page = p]
  /\ ops' = ops - 1
  /\ UNCHANGED <<jar, localStorage, sessionStorage>>

SetStorageType(p, storageType) ==
  /\ ops > 0
  /\ tab[p].loaded
  /\ ~tab[p].configAssigned
  /\ tab[p].CONFIG.storageType # storageType
  /\ tab' = [tab EXCEPT ![p].CONFIG.storageType = storageType]
  /\ last' = [NoLast EXCEPT !.op = "config", !.page = p]
  /\ ops' = ops - 1
  /\ UNCHANGED <<jar, localStorage, sessionStorage>>

SetOverwriteExisting(p, flag) ==
  /\ ops > 0
  /\ tab[p].loaded
  /\ ~tab[p].configAssigned
  /\ tab[p].CONFIG.overwriteExisting # flag
  /\ tab' = [tab EXCEPT ![p].CONFIG.overwriteExisting = flag]
  /\ last' = [NoLast EXCEPT !.op = "config", !.page = p]
  /\ ops' = ops - 1
  /\ UNCHANGED <<jar, localStorage, sessionStorage>>

SetDebug(p, flag) ==
  /\ ops > 0
  /\ tab[p].loaded
  /\ ~tab[p].configAssigned
  /\ tab[p].CONFIG.debug # flag
  /\ tab' = [tab EXCEPT ![p].CONFIG.debug = flag]
  /\ last' = [NoLast EXCEPT !.op = "config", !.page = p]
  /\ ops' = ops - 1
  /\ UNCHANGED <<jar, localStorage, sessionStorage>>

SetCookiePrefix(p, cookiePrefix) ==
  /\ ops > 0
  /\ tab[p].loaded
  /\ ~tab[p].configAssigned
  /\ tab[p].CONFIG.cookiePrefix # cookiePrefix
  /\ tab' = [tab EXCEPT ![p].CONFIG.cookiePrefix = cookiePrefix]
  /\ last' = [NoLast EXCEPT !.op = "config", !.page = p]
  /\ ops' = ops - 1
  /\ UNCHANGED <<jar, localStorage, sessionStorage>>

SetCookieMaxAge(p, cookieMaxAge) ==
  /\ ops > 0
  /\ tab[p].loaded
  /\ ~tab[p].configAssigned
  /\ tab[p].CONFIG.cookieMaxAge # cookieMaxAge
  /\ tab' = [tab EXCEPT ![p].CONFIG.cookieMaxAge = cookieMaxAge]
  /\ last' = [NoLast EXCEPT !.op = "config", !.page = p]
  /\ ops' = ops - 1
  /\ UNCHANGED <<jar, localStorage, sessionStorage>>

\* StorageSync.config = object: the property config of the object
\* window.StorageSync holds the application's object from now on; the
\* library's functions read the CONFIG object of the module
AssignConfig(p, object) ==
  /\ ops > 0
  /\ tab[p].loaded
  /\ ~tab[p].configAssigned
  /\ tab' = [tab EXCEPT ![p].configAssigned = TRUE, ![p].config = object]
  /\ last' = [NoLast EXCEPT !.op = "assign", !.page = p]
  /\ ops' = ops - 1
  /\ UNCHANGED <<jar, localStorage, sessionStorage>>

\* StorageSync.writeToCookie(key, value)
WriteToCookie(p, key, value) ==
  /\ ops > 0
  /\ tab[p].loaded
  /\ \E w \in {CallWriteToCookie(World(p), key, value)} :
        /\ Commit(p, w, tab[p])
        /\ last' = [Did("writeToCookie", p, w) EXCEPT !.key = key, !.value = value,
                                                      !.returned = w.cookieWrites = 1]

\* StorageSync.deleteFromCookie(key)
DeleteFromCookie(p, key) ==
  /\ ops > 0
  /\ tab[p].loaded
  /\ \E w \in {CallDeleteFromCookie(World(p), key)} :
        /\ Commit(p, w, tab[p])
        /\ last' = [Did("deleteFromCookie", p, w) EXCEPT
                      !.key = key,
                      !.returned = w.cookieDeletes = 1,
                      !.afterWrite = /\ last.op = "writeToCookie" /\ last.page = p
                                     /\ last.key = key /\ last.returned,
                      !.wroteOn = IF /\ last.op = "writeToCookie"
                                     /\ last.key = key /\ last.returned
                                  THEN last.page ELSE ""]

\* StorageSync.clearAllSyncCookies()
ClearAllSyncCookies(p) ==
  /\ ops > 0
  /\ tab[p].loaded
  /\ \E r \in {clearAllSyncCookies(tab[p].CONFIG, HostOf[p], jar)} :
     \E w \in {[World(p) EXCEPT !.jar = r.jar, !.cookieDeletes = r.count]} :
        /\ Commit(p, w, tab[p])
        /\ last' = Did("clearAllSyncCookies", p, w)

\* The browser dispatches to page p's window the storage event that has
\* waited longest.
StorageEvent(p) ==
  /\ ops > 0
  /\ tab[p].inbox # <<>>
  /\ \E event \in {Head(tab[p].inbox)} :
     \E w \in {DispatchStorageEvent(World(p), event, tab[p].storageListeners)} :
        /\ Commit(p, w, [tab[p] EXCEPT !.inbox = Tail(@)])
        /\ last' = [Did("storage", p, w) EXCEPT
                      !.storageName = event.storageName, !.key = event.key,
                      !.value = event.newValue,
                      !.matched = shouldSync(tab[p].CONFIG.syncKeys, event.key).result]

QuotaKeyChoices == {{}, {<<"c">>}}
StorageNames == {"localStorage", "sessionStorage"}

Next ==
  \/ \E p \in {"p1", "p2"}, quota \in BOOLEAN, quotaKeys \in QuotaKeyChoices :
       Load(p, quota, quotaKeys)
  \/ \E p \in AppPages, quota \in BOOLEAN, quotaKeys \in QuotaKeyChoices :
       Reinitialize(p, quota, quotaKeys)
  \/ \E p \in AppPages, quotaKeys \in QuotaKeyChoices : SyncCookiesToStorage(p, quotaKeys)
  \/ \E p \in AppPages, n \in StorageNames, k \in Keys, v \in Values, quota \in BOOLEAN :
       SetItem(p, n, k, v, quota)
  \/ \E p \in AppPages, n \in StorageNames, k \in Keys, fault \in BOOLEAN :
       RemoveItem(p, n, k, fault)
  \/ \E p \in AppPages, n \in StorageNames, fault \in BOOLEAN : Clear(p, n, fault)
  \/ \E p \in AppPages, x \in SyncKeyChoices : SetSyncKeys(p, x)
  \/ \E p \in AppPages, x \in StorageTypeChoices : SetStorageType(p, x)
  \/ \E p \in AppPages, x \in OverwriteChoices : SetOverwriteExisting(p, x)
  \/ \E p \in AppPages, k \in Keys, v \in Values : WriteToCookie(p, k, v)
  \/ \E p \in AppPages, k \in Keys : DeleteFromCookie(p, k)
  \/ \E p \in AppPages : ClearAllSyncCookies(p)

Spec == Init /\ [][Next]_vars

\* ------------------------------------------------- the codec on its own

\* the most operations in one behaviour of SpecCodec
MaxCodecOps == 2

\* Keys and values at the edges of sanitizeKey and sanitizeValue: the key of
\* the cookie an earlier visit may have left, a key with the characters
\* sanitizeKey replaces, the longest key and one longer, the empty key, a key
\* that is no string; the longest value, one longer, the longest value made
\* of a character encodeURIComponent escapes, a lone surrogate, null.  A value of
\* the longest size is written under the first key only: the size of a value
\* never meets the key but in the cookie's ceiling, and the first key is
\* where a cookie of an earlier visit can be in the way.
CodecKeys ==
  {<<"c">>, <<"a", ";", "=", ",", " ", "b">>, Repeat("k", MaxKeyLength),
   Repeat("k", MaxKeyLength + 1), <<>>, NULL}
CodecValues ==
  {<<"v">>, <<>>, <<"a", "=", "b">>, Repeat("x", MaxValueSize),
   Repeat("x", MaxValueSize + 1), Repeat("%", MaxValueSize), <<LoneSurrogate>>,
   NULL}

\* a cookie of the library's prefix whose value decodeURIComponent rejects,
\* as the server or another script may have set it, and after it a cookie
\* of the library
MalformedJar ==
  <<[name |-> DefaultCookiePrefix \o <<"c">>, value |-> <<"%">>,
     domain |-> <<"example", "com">>],
    [name |-> DefaultCookiePrefix \o <<"b">>, value |-> <<"v">>,
     domain |-> <<"example", "com">>]>>

InitCodec ==
  /\ jar \in EarlierJars \cup {MalformedJar}
  /\ localStorage = [o \in Origins |-> <<>>]
  /\ sessionStorage = [p \in Pages |-> <<>>]
  /\ tab = [p \in Pages |-> NoTab]
  /\ last = NoLast
  /\ ops = MaxCodecOps

NextCodec ==
  \/ Load("p1", FALSE, {})
  \/ \E k \in CodecKeys, v \in CodecValues :
       /\ Len(v) = MaxValueSize => k = <<"c">>
       /\ WriteToCookie("p1", k, v)
  \/ \E k \in CodecKeys : DeleteFromCookie("p1", k)

SpecCodec == InitCodec /\ [][NextCodec]_vars

\* ------------------------------------------- the key matcher over time

\* the most operations in one behaviour of SpecMatcher
MaxMatcherOps == 4

InitMatcher == Start /\ ops = MaxMatcherOps

NextMatcher ==
  \/ Load("p1", FALSE, {})
  \/ \E x \in SyncKeyChoices : SetSyncKeys("p1", x)
  \/ \E k \in Keys, v \in Values \cup {NULL} : SetItem("p1", "localStorage", k, v, FALSE)
  \/ \E k \in Keys : RemoveItem("p1", "localStorage", k, FALSE)

SpecMatcher == InitMatcher /\ [][NextMatcher]_vars

\* ------------------------------------------------ two tabs of one origin

\* the most operations in one behaviour of SpecTabs
MaxTabOps == 4

\* a page after its load in a browser without cookies and stored values
LoadedTab ==
  [NoTab EXCEPT !.loaded = TRUE, !.protoSetItem = 1, !.storageListeners = 1,
                !.completeListener = TRUE, !.isInitialized = TRUE,
                !.syncCompleteResolve = TRUE,
                !.promise = [state |-> "pending", value |-> NoReport],
                !.passes = 1,
                !.firstReport = [syncedCount |-> 0, syncedKeys |-> <<>>,
                                 skippedKeys |-> <<>>, totalCookies |-> 0]]

\* Both tabs have loaded the library and the events of the loads are
\* dispatched.
InitTabs ==
  /\ jar = <<>>
  /\ localStorage = [o \in Origins |-> <<>>]
  /\ sessionStorage = [p \in Pages |-> <<>>]
  /\ tab = [p \in Pages |-> IF p \in Tabs THEN LoadedTab ELSE NoTab]
  /\ last = NoLast
  /\ ops = MaxTabOps

\* The first tab stores "v" and the second "w"; the first tab's application
\* also changes its configuration and reinitializes.
NextTabs ==
  \/ \E k \in Keys : SetItem("p1", "localStorage", k, <<"v">>, FALSE)
  \/ \E k \in Keys : SetItem("p3", "localStorage", k, <<"w">>, FALSE)
  \/ \E p \in Tabs : RemoveItem(p, "localStorage", <<"c">>, FALSE)
  \/ \E p \in Tabs : Clear(p, "localStorage", FALSE)
  \/ \E p \in Tabs : StorageEvent(p)
  \/ Reinitialize("p1", FALSE, {})
  \/ \E x \in StorageTypeChoices : SetStorageType("p1", x)
  \/ SetSyncKeys("p1", ArrayOf(<<StringRule(<<"c">>)>>))

SpecTabs == InitTabs /\ [][NextTabs]_vars

\* the two tabs, as they loaded, only store and remove values
NextRace ==
  \/ \E k \in Keys : SetItem("p1", "localStorage", k, <<"v">>, FALSE)
  \/ \E k \in Keys : SetItem("p3", "localStorage", k, <<"w">>, FALSE)
  \/ \E p \in Tabs, k \in Keys : RemoveItem(p, "localStorage", k, FALSE)
  \/ \E p \in Tabs : StorageEvent(p)

SpecRace == InitTabs /\ [][NextRace]_vars

\* the storage events that wait in the tabs
Pending == Len(tab["p1"].inbox) + Len(tab["p3"].inbox)

\* the operations left suffice to dispatch every event that waits
Fits == ops >= Pending

\* The applications of the two tabs store and remove values, call the codec
\* and run replay passes, as far as the operations of the behaviour allow
\* the dispatch of the events they raise; the browser dispatches every
\* event that waits.
NextQuiet ==
  \/ \E p \in Tabs : StorageEvent(p)
  \/ /\ \/ SetItem("p1", "localStorage", <<"c">>, <<"v">>, FALSE)
        \/ SetItem("p3", "localStorage", <<"c">>, <<"w">>, FALSE)
        \/ \E p \in Tabs : RemoveItem(p, "localStorage", <<"c">>, FALSE)
        \/ WriteToCookie("p1", <<"d", " ", "e">>, <<"v">>)
        \/ \E p \in Tabs : SyncCookiesToStorage(p, {})
     /\ Fits'

\* What a dispatch does to the events that wait: the first one of a tab
\* leaves its inbox.  Under the default configuration of the two tabs the
\* steps of StorageEvent are the steps of NextQuiet that do this.
Dispatches ==
  \E p \in Tabs :
     /\ ops > 0 /\ tab[p].inbox # <<>>
     /\ ops' = ops - 1
     /\ tab' = [tab EXCEPT ![p].inbox = Tail(@)]

\* the browser's event loop leaves no event waiting for ever
SpecQuiet == InitTabs /\ [][NextQuiet]_vars /\ WF_<<ops, tab>>(Dispatches)

\* The first tab's application sets storageType to "both" and then stores
\* and removes values in both storages and clears them.
NextBoth ==
  \/ SetStorageType("p1", "both")
  \/ /\ tab["p1"].CONFIG.storageType = "both"
     /\ \/ \E n \in StorageNames, k \in Keys, v \in {<<"v">>, <<"w">>} :
             SetItem("p1", n, k, v, FALSE)
        \/ \E n \in StorageNames, k \in Keys : RemoveItem("p1", n, k, FALSE)
        \/ \E n \in StorageNames : Clear("p1", n, FALSE)

SpecBoth == InitTabs /\ [][NextBoth]_vars

\* ------------------------------------------------- pages of several hosts

\* pages of two subdomains, of their domain, of localhost and of an address
DomainPages == {"p1", "p2", "p4", "p5", "p6"}

InitDomain ==
  /\ jar = <<>>
  /\ localStorage = [o \in Origins |-> <<>>]
  /\ sessionStorage = [p \in Pages |-> <<>>]
  /\ tab = [p \in Pages |-> NoTab]
  /\ last = NoLast
  /\ ops = MaxTabOps

\* the pages load and their applications call the codec
NextDomain ==
  \/ \E p \in DomainPages : Load(p, FALSE, {})
  \/ \E p \in DomainPages : WriteToCookie(p, <<"c">>, <<"v">>)
  \/ \E p \in DomainPages : DeleteFromCookie(p, <<"c">>)

SpecDomain == InitDomain /\ [][NextDomain]_vars

\* -------------------------------------------- keys that sanitize alike

\* the keys of an application of which two differ only in a character
\* sanitizeKey replaces
SanitizedAlikeKeys == {<<"c">>, <<"d", " ", "e">>, <<"d", "_", "e">>}

\* a loaded page whose application calls the codec with these keys
NextKeys ==
  \/ \E k \in SanitizedAlikeKeys, v \in {<<"v">>, <<"w">>} : WriteToCookie("p1", k, v)
  \/ \E k \in SanitizedAlikeKeys : DeleteFromCookie("p1", k)

SpecKeys == InitTabs /\ [][NextKeys]_vars

\* ------------------------------------- the configuration and the browser

\* the most operations in one behaviour of SpecConfig
MaxConfigOps == 3

\* What the application assigns to the fields of StorageSync.config, the
\* values validateConfig repairs among them: a syncKeys that is no array, or
\* that holds an empty string or a value that is neither string nor RegExp;
\* a storageType outside the three; flags that are no booleans; the empty
\* cookiePrefix; a cookieMaxAge that is zero, negative, NaN or no number.
ConfigSyncKeyChoices ==
  SyncKeyChoices \cup {NotAnArray,
                       ArrayOf(<<StringRule(<<>>)>>),
                       ArrayOf(<<OtherRule, StringRule(<<"c">>)>>)}
ConfigStorageTypeChoices == StorageTypeChoices \cup {"invalid"}
ConfigFlagChoices == {"false", "true", "yes"}
CookiePrefixChoices == {DefaultCookiePrefix, <<"x", "_">>, <<>>}
CookieMaxAgeChoices ==
  {Number(DefaultCookieMaxAge), Number(3600), Number(0), Number(-1), NaN, NotANumber}

\* the objects the application assigns to StorageSync.config
ConfigObjects ==
  {[CONFIG EXCEPT !.storageType = "both", !.overwriteExisting = "true",
                  !.cookiePrefix = <<"x", "_">>,
                  !.syncKeys = ArrayOf(<<StringRule(<<"c">>)>>)],
   [CONFIG EXCEPT !.storageType = "sessionStorage"]}

\* the browser before a page loads, lacking one primitive or none
InitConfig ==
  /\ jar \in EarlierJars
  /\ localStorage = [o \in Origins |-> <<>>]
  /\ sessionStorage = [p \in Pages |-> <<>>]
  /\ \E m \in Primitives \cup {"none"} :
       tab = [p \in Pages |-> [NoTab EXCEPT !.missing = m]]
  /\ last = NoLast
  /\ ops = MaxConfigOps

NextConfig ==
  \/ \E quota \in BOOLEAN : Load("p1", quota, {})
  \/ \E quota \in BOOLEAN : Reinitialize("p1", quota, {})
  \/ \E x \in ConfigSyncKeyChoices : SetSyncKeys("p1", x)
  \/ \E x \in ConfigStorageTypeChoices : SetStorageType("p1", x)
  \/ \E x \in ConfigFlagChoices : SetOverwriteExisting("p1", x)
  \/ \E x \in ConfigFlagChoices : SetDebug("p1", x)
  \/ \E x \in CookiePrefixChoices : SetCookiePrefix("p1", x)
  \/ \E x \in CookieMaxAgeChoices : SetCookieMaxAge("p1", x)
  \/ \E x \in ConfigObjects : AssignConfig("p1", x)
  \/ SetItem("p1", "localStorage", <<"c">>, <<"v">>, FALSE)

SpecConfig == InitConfig /\ [][NextConfig]_vars

\* ------------------------------------------------------------- properties

\* interception is installed in page p
Intercepted(p) == tab[p].protoSetItem > 0

\* the last operation was a setItem the wrapper mirrors: no fault, in a page
\* with interception installed, on a storage in scope, with a key that
\* passed shouldSync
MirroredSetItem ==
  /\ last.op = "setItem"
  /\ ~last.faulty
  /\ Intercepted(last.page)
  /\ shouldSyncStorage(tab[last.page].CONFIG, last.storageName)
  /\ last.matched

\* C1: when a page of one subdomain has just stored a non-empty value of at
\* most 3500 characters under a key sanitizeKey accepts and shouldSync
\* passes, on a storage in scope and with interception installed, and a page
\* of another subdomain whose storage has no value for the key then loads
\* without a fault, that page's storage holds the value under the key after
\* the load.
C1_EndToEndSync ==
  [][(/\ MirroredSetItem
      /\ last.page = "p1"
      /\ ~KeyRejected(sanitizeKey(last.key))
      /\ last.value # <<>> /\ Len(last.value) <= MaxValueSize
      /\ last'.op = "load" /\ last'.page = "p2" /\ last'.returned /\ ~last'.faulty
      /\ GetItem(localStorage[HostOf["p2"]], last.key) = NULL)
     => GetItem(localStorage'[HostOf["p2"]], last.key) = last.value]_vars

\* C2: after writeToCookie(k, v) with a key sanitizeKey accepts and a string v
\* of at most 3500 characters, the call has returned true and
\* readFromCookie(k) gives v.
C2_RoundTrip ==
  (/\ last.op = "writeToCookie"
   /\ ~KeyRejected(sanitizeKey(last.key))
   /\ IsString(last.value) /\ Len(last.value) <= MaxValueSize)
  => /\ last.returned
     /\ readFromCookie(tab[last.page].CONFIG, HostOf[last.page], jar, last.key) = last.value

\* C3: in a page that loaded and initialized and where no replay pass ran
\* since, the promise ready() returns is resolved with the report of the
\* initial replay.
C3_ReadyResolvedByInitialReplay ==
  \A p \in Pages :
    (tab[p].loaded /\ tab[p].isInitialized /\ tab[p].passes = 1)
    => tab[p].promise = [state |-> "resolved", value |-> tab[p].firstReport]

\* C4: the promise ready() returns never leaves the resolved state nor
\* changes its value once resolved, and once created it stays the page's
\* promise, whatever pass runs later.
C4_ReadinessOneShot ==
  [][\A p \in Pages :
       /\ tab[p].promise.state = "resolved" => tab'[p].promise = tab[p].promise
       /\ tab[p].promise.state = "pending" => tab'[p].promise.state # "none"]_vars

\* a pass has reported after the promise was resolved with another report
C4_Witness ==
  /\ last.op \in {"sync", "reinitialize"}
  /\ last.dispatched = 1
  /\ tab[last.page].promise.state = "resolved"
  /\ tab[last.page].promise.value # last.report

\* C5: whatever reinitialize() calls came before, a mirrored setItem makes one
\* native write and one cookie write, Storage.prototype.setItem is at most
\* one wrapper around the native function, and originalSetItem, which the
\* replay calls, is the native function.
C5_SingleInterception ==
  /\ \A p \in Pages : tab[p].originalSetItem = 0 /\ tab[p].protoSetItem <= 1
  /\ MirroredSetItem => last.nativeCalls = 1 /\ last.cookieWrites = 1

\* a mirrored setItem in a page that initialized more than once
C5_Witness ==
  /\ MirroredSetItem
  /\ tab[last.page].storageListeners >= 2
  /\ last.cookieWrites = 1

\* the operations that run a replay pass
ReplayOps == {"load", "sync", "reinitialize"}

\* page p's storage of this name in the next state
StorageAfter(p, storageName) ==
  IF storageName = "localStorage" THEN localStorage'[HostOf[p]] ELSE sessionStorage'[p]

\* every key of the storage keeps its value in the next state
KeepsValues(p, storageName) ==
  \A k \in DOMAIN StorageOf(World(p), storageName) :
    GetItem(StorageAfter(p, storageName), k) = StorageOf(World(p), storageName)[k]

\* C6: a replay pass of a page whose CONFIG.overwriteExisting is false leaves
\* every key that has a value in localStorage or sessionStorage with that
\* value.
C6_NoOverwriteOfExisting ==
  [][\A p \in Pages :
       (/\ last'.op \in ReplayOps /\ last'.page = p
        /\ tab[p].CONFIG.overwriteExisting = "false")
       => \A n \in StorageNames : KeepsValues(p, n)]_vars

\* a pass has skipped a key whose stored value is not the cookie's
C6_Witness ==
  /\ last.op \in ReplayOps
  /\ tab[last.page].CONFIG.overwriteExisting = "false"
  /\ \E i \in DOMAIN last.report.skippedKeys :
       LET e == last.report.skippedKeys[i]
       IN /\ readFromCookie(tab[last.page].CONFIG, HostOf[last.page], jar, e.key) # NULL
          /\ GetItem(StorageOf(World(last.page), e.storageType), e.key)
               # readFromCookie(tab[last.page].CONFIG, HostOf[last.page], jar, e.key)

\* CONFIG as the replay pass of operation op finds it in page p: init()
\* validates it after the environment check
ReplayConfig(p, op) ==
  IF op = "sync" THEN tab[p].CONFIG
  ELSE validateConfig(isEnvironmentSupported(World(p), tab[p].protoSetItem, FALSE).w.cfg).cfg

\* what a pass over syncData asks shouldSync, in order: every cookie for
\* every storage in scope
ReplayQuestions(cfg, syncData) ==
  [q \in 1..(Len(getStorageObjects(cfg)) * Len(syncData)) |->
     [storageName |-> getStorageObjects(cfg)[((q - 1) \div Len(syncData)) + 1],
      key |-> syncData[((q - 1) % Len(syncData)) + 1].key,
      value |-> syncData[((q - 1) % Len(syncData)) + 1].value]]

\* CONFIG.syncKeys when the pass asks its q-th question
RECURSIVE SyncKeysBefore(_, _, _)
SyncKeysBefore(syncKeys, questions, q) ==
  IF q = 1 THEN syncKeys
  ELSE shouldSync(SyncKeysBefore(syncKeys, questions, q - 1), questions[q - 1].key).syncKeys

\* the q-th question of the pass gets the answer true
Passes(cfg, questions, q) ==
  shouldSync(SyncKeysBefore(cfg.syncKeys, questions, q), questions[q].key).result

\* the cookie of the q-th question is due in page p's storage: it is not
\* empty, and overwriteExisting is true or the storage has no value for it
Due(p, cfg, questions, q) ==
  /\ questions[q].value # <<>>
  /\ \/ cfg.overwriteExisting = "true"
     \/ GetItem(StorageOf(World(p), questions[q].storageName), questions[q].key) = NULL

C8_ReplayLeavesJar ==
  [][/\ last'.op \in ReplayOps => last'.replayCookieOps = 0
     /\ last'.op \in {"load", "sync"} => jar' = jar]_vars

\* the pass of a reinitialize(), with interception installed, has written
\* storage
C8_Witness ==
  /\ last.op = "reinitialize"
  /\ Intercepted(last.page)
  /\ last.report.syncedCount > 0

\* the rule matches the key: a string by equality, a pattern as a regular
\* expression
RuleMatches(r, key) ==
  \/ r.type = "string" /\ r.src = key
  \/ r.type = "regexp" /\ r.anchor = "^" /\ StartsWith(key, r.src)
  \/ r.type = "regexp" /\ r.anchor = "$" /\ EndsWith(key, r.src)

\* C9: a setItem without fault, with interception installed, on a storage
\* in scope, of a key that is not empty, writes the key's cookie if and only
\* if syncKeys is empty or one of its rules matches the key.
C9_KeyScoping ==
  (/\ last.op = "setItem" /\ ~last.faulty
   /\ Intercepted(last.page)
   /\ shouldSyncStorage(tab[last.page].CONFIG, last.storageName)
   /\ last.key # <<>>)
  => (last.cookieWrites = 1
        <=> \/ Len(tab[last.page].CONFIG.syncKeys.items) = 0
            \/ \E i \in DOMAIN tab[last.page].CONFIG.syncKeys.items :
                 RuleMatches(tab[last.page].CONFIG.syncKeys.items[i], last.key))

\* C10: setItem, removeItem and clear on sessionStorage under storageType
\* "localStorage", and on localStorage under "sessionStorage", leave the
\* cookie jar as it was; under "both" a mirrored setItem on either storage
\* writes the key's cookie, which then holds the value.
C10_BackendScoping ==
  [][(last'.op \in {"setItem", "removeItem", "clear"})
     => LET cfg == tab[last'.page].CONFIG
        IN /\ (cfg.storageType = "localStorage" /\ last'.storageName = "sessionStorage")
              => jar' = jar
           /\ (cfg.storageType = "sessionStorage" /\ last'.storageName = "localStorage")
              => jar' = jar
           /\ (/\ cfg.storageType = "both" /\ last'.op = "setItem" /\ ~last'.faulty
               /\ tab[last'.page].protoSetItem > 0 /\ last'.matched)
              => /\ last'.cookieWrites = 1
                 /\ readFromCookie(cfg, HostOf[last'.page], jar', last'.key)
                      = StringOf(last'.value)]_vars

\* under "both", a setItem on sessionStorage has written the key's cookie
C10_Witness ==
  /\ MirroredSetItem
  /\ tab[last.page].CONFIG.storageType = "both"
  /\ last.storageName = "sessionStorage"
  /\ last.cookieWrites = 1

\* the primitives init() needs are there and usable in page p for a call
\* with this fault
SupportedEnvironment(p, quota) == ~LacksRequired(World(p)) /\ ~quota

\* the fields of a configuration are as the documentation requires them
ValidStorageType(cfg) == cfg.storageType \in {"localStorage", "sessionStorage", "both"}
ValidSyncKeys(cfg) ==
  /\ cfg.syncKeys.isArray
  /\ \A i \in DOMAIN cfg.syncKeys.items :
       \/ cfg.syncKeys.items[i].type = "regexp"
       \/ cfg.syncKeys.items[i].type = "string" /\ cfg.syncKeys.items[i].src # <<>>
ValidCookiePrefix(cfg) == IsString(cfg.cookiePrefix) /\ cfg.cookiePrefix # <<>>
ValidCookieMaxAge(cfg) ==
  cfg.cookieMaxAge.type = "number" /\ ~cfg.cookieMaxAge.nan /\ cfg.cookieMaxAge.n > 0

ValidConfig(cfg) ==
  /\ ValidStorageType(cfg)
  /\ ValidSyncKeys(cfg)
  /\ ValidCookiePrefix(cfg)
  /\ ValidCookieMaxAge(cfg)
  /\ IsBoolean(cfg.overwriteExisting)
  /\ IsBoolean(cfg.debug)

\* C11: in a supported environment reinitialize() returns true, leaves
\* isInitialized() true, has run the replay to its report and leaves
\* CONFIG repaired (a storageType of the three, boolean flags, a cookiePrefix
\* that is a non-empty string, a cookieMaxAge that is a number and not zero
\* or less, a syncKeys that is an array of non-empty strings and patterns),
\* whatever the fields held before the call.
C11_InvalidConfigNeverBlocks ==
  [][\A p \in Pages :
       (/\ last'.op = "reinitialize" /\ last'.page = p
        /\ SupportedEnvironment(p, last'.faulty))
       => /\ last'.returned
          /\ tab'[p].isInitialized
          /\ last'.dispatched = 1
          /\ ValidStorageType(tab'[p].CONFIG)
          /\ IsBoolean(tab'[p].CONFIG.overwriteExisting)
          /\ IsBoolean(tab'[p].CONFIG.debug)
          /\ ValidCookiePrefix(tab'[p].CONFIG)
          /\ tab'[p].CONFIG.cookieMaxAge.type = "number"
          /\ ~NotAboveZero(tab'[p].CONFIG.cookieMaxAge)
          /\ ValidSyncKeys(tab'[p].CONFIG)]_vars

\* the operations that run init()
InitOps == {"load", "reinitialize"}

\* C12: a load or a reinitialize() in a browser that lacks a primitive
\* init() needs, or whose localStorage refuses the write test, throws
\* nothing, leaves window.StorageSync defined, returns false with
\* isInitialized() false, dispatches no report, adds no listener of storage
\* and leaves Storage.prototype as it was, and isSupported() is false.
C12_UnsupportedEnvironment ==
  [][\A p \in Pages :
       (/\ last'.op \in InitOps /\ last'.page = p
        /\ ~SupportedEnvironment(p, last'.faulty))
       => /\ ~last'.threw
          /\ tab'[p].loaded
          /\ ~last'.returned
          /\ ~tab'[p].isInitialized
          /\ last'.dispatched = 0
          /\ tab'[p].storageListeners = tab[p].storageListeners
          /\ tab'[p].protoSetItem = tab[p].protoSetItem
          /\ ~isEnvironmentSupported(World(p), tab[p].protoSetItem, last'.faulty).supported]_vars

\* C13: the defaults are those of the documentation, and after an init()
\* that reached validateConfig each field that was invalid before the call
\* (for syncKeys: no array) holds the value it has in the CONFIG object at
\* module load.
C13_RepairsToDefaults ==
  [][\A p \in Pages :
       /\ CONFIG.storageType = "localStorage" /\ CONFIG.overwriteExisting = "false"
       /\ CONFIG.cookiePrefix = <<"s", "d", "s", "_", "s", "y", "n", "c", "_">>
       /\ CONFIG.cookieMaxAge = Number(31536000)
       /\ CONFIG.syncKeys = ArrayOf(<<>>) /\ CONFIG.debug = "false"
       /\ (last'.op \in InitOps /\ last'.page = p /\ last'.validated)
          => /\ ~ValidStorageType(tab[p].CONFIG)
                => tab'[p].CONFIG.storageType = CONFIG.storageType
             /\ ~IsBoolean(tab[p].CONFIG.overwriteExisting)
                => tab'[p].CONFIG.overwriteExisting = CONFIG.overwriteExisting
             /\ ~IsBoolean(tab[p].CONFIG.debug)
                => tab'[p].CONFIG.debug = CONFIG.debug
             /\ ~ValidCookiePrefix(tab[p].CONFIG)
                => tab'[p].CONFIG.cookiePrefix = CONFIG.cookiePrefix
             /\ ~ValidCookieMaxAge(tab[p].CONFIG)
                => tab'[p].CONFIG.cookieMaxAge = CONFIG.cookieMaxAge
             /\ ~tab[p].CONFIG.syncKeys.isArray
                => tab'[p].CONFIG.syncKeys = CONFIG.syncKeys]_vars

\* C14: an init() that reached validateConfig got true from it exactly when
\* validateConfig changed no field of CONFIG.
C14_ValidateTrueIffUnchanged ==
  (last.op \in InitOps /\ last.validated) => (last.configValid <=> ~last.repaired)

\* C15: after an init() that reached validateConfig every field of CONFIG
\* is valid.
C15_ValidatedConfig ==
  (last.op \in InitOps /\ last.validated) => ValidConfig(tab[last.page].CONFIG)

\* C16: after the application assigned an object to StorageSync.config and
\* reinitialize() returned true, the CONFIG object the library's functions
\* read holds the object's storageType, overwriteExisting, cookiePrefix and
\* syncKeys.
C16_AssignedConfigTakesEffect ==
  \A p \in Pages :
    (/\ last.op = "reinitialize" /\ last.page = p /\ last.returned
     /\ tab[p].configAssigned)
    => /\ tab[p].CONFIG.syncKeys = tab[p].config.syncKeys
       /\ tab[p].CONFIG.storageType = tab[p].config.storageType
       /\ tab[p].CONFIG.overwriteExisting = tab[p].config.overwriteExisting
       /\ tab[p].CONFIG.cookiePrefix = tab[p].config.cookiePrefix

\* the value is longer than sanitizeValue allows
Oversize(value) == IsString(value) /\ Len(value) > MaxValueSize

\* C17 as stated: after writeToCookie(k, v) with a v of more than 3500
\* characters the call has returned false and readFromCookie(k) gives null.
C17_OversizeReadsNull ==
  (last.op = "writeToCookie" /\ Oversize(last.value))
  => /\ ~last.returned
     /\ readFromCookie(tab[last.page].CONFIG, HostOf[last.page], jar, last.key) = NULL

\* C17: writeToCookie(k, v) with a v of more than 3500 characters returns
\* false and leaves the cookie jar as it was, so readFromCookie(k) right
\* after gives what it gave right before: null when k had no cookie, the
\* value of k's cookie when it had one.
C17_OversizeRejected ==
  [][(last'.op = "writeToCookie" /\ Oversize(last'.value))
     => /\ ~last'.returned
        /\ jar' = jar
        /\ readFromCookie(tab'[last'.page].CONFIG, HostOf[last'.page], jar', last'.key)
             = readFromCookie(tab[last'.page].CONFIG, HostOf[last'.page], jar, last'.key)]_vars

\* a write of 3501 characters was rejected for a key that has no cookie
C17_Witness ==
  /\ last.op = "writeToCookie" /\ Oversize(last.value)
  /\ ~KeyRejected(sanitizeKey(last.key))
  /\ ~last.returned
  /\ readFromCookie(tab[last.page].CONFIG, HostOf[last.page], jar, last.key) = NULL

\* the characters sanitizeKey replaces
ForbiddenChars == {";", ",", "="} \cup WhitespaceChars

\* the cookies of one jar that the other has not, as [name, value, domain]
CookiesOnlyIn(a, b) == {a[i] : i \in DOMAIN a} \ {b[i] : i \in DOMAIN b}

\* the value is one the codec stores under this cookie name: a string of
\* at most 3500 characters that encodeURIComponent accepts and whose
\* encoding fits the browser's ceiling for one cookie
Storable(name, value) ==
  /\ IsString(value) /\ Len(value) <= MaxValueSize
  /\ ~EncodeThrows(value)
  /\ Len(name) + Len(encodeURIComponent(value)) <= CookieCeiling

\* C18: a writeToCookie or deleteFromCookie of a key sanitizeKey accepts
\* adds, changes and removes no cookie but the one named cookiePrefix +
\* sanitizeKey(key), whose key part holds none of ; , = and whitespace;
\* readFromCookie of the key gives what readFromCookie of the sanitized key
\* gives; and a writeToCookie of a storable value under a key that holds
\* such characters returns true, after which readFromCookie of the same key
\* gives the value.
C18_SanitizedCookieNames ==
  [][(/\ last'.op \in {"writeToCookie", "deleteFromCookie"}
      /\ ~KeyRejected(sanitizeKey(last'.key)))
     => \A cfg \in {tab'[last'.page].CONFIG} :
        \A host \in {HostOf[last'.page]} :
        \A key \in {sanitizeKey(last'.key)} :
          /\ \A i \in DOMAIN key : key[i] \notin ForbiddenChars
          /\ \A c \in CookiesOnlyIn(jar', jar) \cup CookiesOnlyIn(jar, jar') :
               c.name = cfg.cookiePrefix \o key
          /\ key # last'.key
             => \A read \in {readFromCookie(cfg, host, jar', last'.key)} :
                  /\ read = readFromCookie(cfg, host, jar', key)
                  /\ (/\ last'.op = "writeToCookie"
                      /\ Storable(cfg.cookiePrefix \o key, last'.value))
                     => last'.returned /\ read = last'.value]_vars

\* a value was written under a key that holds ; = , and a space, and reads
\* back under that key
C18_Witness ==
  /\ last.op = "writeToCookie"
  /\ \E i \in DOMAIN last.key : last.key[i] = ";"
  /\ last.returned
  /\ last.value # <<>>
  /\ readFromCookie(tab[last.page].CONFIG, HostOf[last.page], jar, last.key) = last.value

\* C19: deleteFromCookie(k) of a key sanitizeKey accepts returns true, after
\* it readFromCookie(k) gives null and getAllSyncCookies() has no entry for
\* k, and the jar is the jar before without k's cookie: every other cookie
\* is where it was with its value.
C19_DeleteAfterWrite ==
  [][(last'.op = "deleteFromCookie" /\ ~KeyRejected(sanitizeKey(last'.key)))
     => \A cfg \in {tab'[last'.page].CONFIG} :
        \A host \in {HostOf[last'.page]} :
        \A all \in {getAllSyncCookies(cfg, host, jar')} :
          /\ last'.returned
          /\ readFromCookie(cfg, host, jar', last'.key) = NULL
          /\ \A i \in DOMAIN all : all[i].key \notin {last'.key, sanitizeKey(last'.key)}
          /\ jar' = SelectSeq(jar, LAMBDA c :
                      c.name # cfg.cookiePrefix \o sanitizeKey(last'.key))]_vars

\* a deleteFromCookie(k) right after a writeToCookie(k, v) that returned
\* true, with another cookie in the jar
C19_Witness ==
  /\ last.op = "deleteFromCookie"
  /\ last.afterWrite
  /\ last.returned
  /\ jar # <<>>
  /\ readFromCookie(tab[last.page].CONFIG, HostOf[last.page], jar, last.key) = NULL

\* the cookies of the jar whose name does not start with the prefix
Unprefixed(cfg, cookies) ==
  SelectSeq(cookies, LAMBDA c : ~StartsWith(c.name, cfg.cookiePrefix))

\* C20: a writeToCookie(k, v) of a string v that returns true leaves
\* getAllSyncCookies() as it was but for the entry k, which holds v (so n
\* writes of distinct keys into a jar without prefixed cookies give exactly
\* those n pairs); clearAllSyncCookies() returns the number of entries
\* getAllSyncCookies() had, leaves it empty and leaves the cookies without
\* the prefix as they were.
C20_GetAllAndClearAll ==
  [][/\ (last'.op = "writeToCookie" /\ last'.returned /\ IsString(last'.value))
        => getAllSyncCookies(tab'[last'.page].CONFIG, HostOf[last'.page], jar')
             = SetProperty(getAllSyncCookies(tab'[last'.page].CONFIG, HostOf[last'.page], jar),
                           last'.key, last'.value)
     /\ (last'.op = "clearAllSyncCookies")
        => /\ last'.cookieDeletes
                = Len(getAllSyncCookies(tab'[last'.page].CONFIG, HostOf[last'.page], jar))
           /\ getAllSyncCookies(tab'[last'.page].CONFIG, HostOf[last'.page], jar') = <<>>
           /\ Unprefixed(tab'[last'.page].CONFIG, jar')
                = Unprefixed(tab'[last'.page].CONFIG, jar)]_vars

\* the replay pass of the operation that leads to the next state has run in
\* page p: a manual call, or an init() that came to validateConfig
PassRan(p) ==
  /\ last'.op \in ReplayOps /\ last'.page = p
  /\ last'.op \in InitOps => last'.validated

\* C21: every replay pass, of the load, of reinitialize() and of a manual
\* call, whether the promise is resolved or not, dispatches one
\* storagesynccomplete event whose detail is the report of that pass:
\* syncedCount counts the entries of syncedKeys, every entry of syncedKeys
\* and skippedKeys names a cookie of the pass and a storage in scope, and
\* totalCookies counts the cookies the pass found.
C21_EveryPassDispatches ==
  [][\A p \in Pages :
       PassRan(p)
       => \A cfg \in {ReplayConfig(p, last'.op)} :
          \A syncData \in {getAllSyncCookies(cfg, HostOf[p], jar)} :
          \A named \in {{syncData[i].key : i \in DOMAIN syncData}} :
            /\ last'.dispatched = 1
            /\ tab'[p].passes = tab[p].passes + 1
            /\ DOMAIN last'.report
                 = {"syncedCount", "syncedKeys", "skippedKeys", "totalCookies"}
            /\ last'.report.totalCookies = Len(syncData)
            /\ last'.report.syncedCount = Len(last'.report.syncedKeys)
            /\ \A i \in DOMAIN last'.report.syncedKeys :
                 /\ last'.report.syncedKeys[i].key \in named
                 /\ shouldSyncStorage(cfg, last'.report.syncedKeys[i].storageType)
            /\ \A i \in DOMAIN last'.report.skippedKeys :
                 /\ last'.report.skippedKeys[i].key \in named
                 /\ shouldSyncStorage(cfg, last'.report.skippedKeys[i].storageType)]_vars

\* a later pass has dispatched its report, which counts a write, in a page
\* whose promise was resolved before with another report
C21_Witness ==
  /\ last.op \in {"sync", "reinitialize"}
  /\ last.dispatched = 1
  /\ tab[last.page].passes >= 2
  /\ tab[last.page].promise.state = "resolved"
  /\ tab[last.page].promise.value # last.report
  /\ last.report.syncedCount = 1
  /\ last.report.totalCookies = 1

\* C22: in a replay pass in which the native write of some keys throws, no
\* exception leaves the pass and the report is dispatched; no entry of
\* syncedKeys names such a key, and the storages hold for it what they held;
\* every other cookie that passes shouldSync and is due is written to every
\* storage in scope, and syncedCount counts these writes.
C22_WriteErrorDoesNotAbort ==
  [][\A p \in Pages :
       (PassRan(p) /\ last'.quotaKeys # {})
       => \A cfg \in {ReplayConfig(p, last'.op)} :
          \A questions \in {ReplayQuestions(cfg, getAllSyncCookies(cfg, HostOf[p], jar))} :
          \A due \in {{q \in DOMAIN questions :
                         Passes(cfg, questions, q) /\ Due(p, cfg, questions, q)}} :
          \A written \in {{q \in due : questions[q].key \notin last'.quotaKeys}} :
            /\ ~last'.threw
            /\ last'.dispatched = 1
            /\ \A i \in DOMAIN last'.report.syncedKeys :
                 last'.report.syncedKeys[i].key \notin last'.quotaKeys
            /\ \A k \in last'.quotaKeys, n \in StorageNames :
                 GetItem(StorageAfter(p, n), k) = GetItem(StorageOf(World(p), n), k)
            /\ \A q \in written :
                 GetItem(StorageAfter(p, questions[q].storageName), questions[q].key)
                   = questions[q].value
            /\ last'.report.syncedCount = Cardinality(written)]_vars

\* a pass has reported the write of one cookie after the write of another,
\* which the storage still lacks, threw
C22_Witness ==
  /\ last.op \in ReplayOps
  /\ last.dispatched = 1
  /\ last.report.syncedCount >= 1
  /\ \E k \in last.quotaKeys :
       /\ readFromCookie(tab[last.page].CONFIG, HostOf[last.page], jar, k) \notin {NULL, <<>>}
       /\ GetItem(localStorage[HostOf[last.page]], k) = NULL
       /\ shouldSyncStorage(tab[last.page].CONFIG, "localStorage")
       /\ shouldSync(tab[last.page].CONFIG.syncKeys, k).result

\* C23: when the native function under the wrapper of setItem, removeItem or
\* clear throws, the call throws, no cookie is written or deleted, and the
\* cookie jar and the storages are as they were.
C23_NativeErrorRethrown ==
  [][(/\ last'.op \in {"setItem", "removeItem", "clear"}
      /\ last'.faulty
      /\ Intercepted(last'.page))
     => /\ last'.threw
        /\ last'.cookieWrites = 0 /\ last'.cookieDeletes = 0
        /\ jar' = jar
        /\ localStorage' = localStorage /\ sessionStorage' = sessionStorage]_vars

\* a clear() has thrown on a storage in scope that holds a key whose cookie
\* the wrapper would have deleted
C23_Witness ==
  /\ last.op = "clear" /\ last.faulty /\ last.threw
  /\ Intercepted(last.page)
  /\ shouldSyncStorage(tab[last.page].CONFIG, last.storageName)
  /\ \E k \in DOMAIN StorageOf(World(last.page), last.storageName) :
       /\ shouldSync(tab[last.page].CONFIG.syncKeys, k).result
       /\ readFromCookie(tab[last.page].CONFIG, HostOf[last.page], jar, k) # NULL

\* the operations of the cookie codec that assign document.cookie
CodecOps == {"writeToCookie", "deleteFromCookie"}

\* the key is no string, is empty or is longer than 200 characters
InvalidKey(key) == ~IsString(key) \/ Len(key) = 0 \/ Len(key) > MaxKeyLength

\* the jar holds, under the key's cookie name, a value decodeURIComponent
\* rejects
HoldsMalformed(cfg, cookies, key) ==
  /\ ~InvalidKey(key)
  /\ \E i \in DOMAIN cookies :
       /\ cookies[i].name = cfg.cookiePrefix \o sanitizeKey(key)
       /\ DecodeThrows(cookies[i].value)

C26_MirrorOfSameTabWrites ==
  (/\ last.op = "setItem" /\ ~last.threw
   /\ Intercepted(last.page)
   /\ shouldSyncStorage(tab[last.page].CONFIG, last.storageName)
   /\ last.matched
   /\ ~InvalidKey(last.key))
  => readFromCookie(tab[last.page].CONFIG, HostOf[last.page], jar, last.key)
       = GetItem(StorageOf(World(last.page), last.storageName), last.key)

\* C30: a clear() without fault, with interception installed, empties the
\* storage; on a storage in scope it removes from the jar the cookies of the
\* keys the storage held that pass shouldSync, each asked in the order of
\* Object.keys, and no other cookie; on a storage out of scope it leaves the
\* jar as it was.
C30_SameTabClear ==
  [][\A p \in Pages :
       (/\ last'.op = "clear" /\ last'.page = p /\ ~last'.faulty
        /\ Intercepted(p))
       => \A cfg \in {tab[p].CONFIG} :
          \A questions \in {[i \in DOMAIN last'.keys |-> [key |-> last'.keys[i]]]} :
          \A gone \in {{cfg.cookiePrefix \o sanitizeKey(questions[q].key) :
                          q \in {i \in DOMAIN questions :
                                   /\ Passes(cfg, questions, i)
                                   /\ ~InvalidKey(questions[i].key)}}} :
            /\ StorageAfter(p, last'.storageName) = <<>>
            /\ {last'.keys[i] : i \in DOMAIN last'.keys}
                 = DOMAIN StorageOf(World(p), last'.storageName)
            /\ shouldSyncStorage(cfg, last'.storageName)
               => /\ \A i \in DOMAIN jar' : jar'[i].name \notin gone
                  /\ CookiesOnlyIn(jar', jar) = {}
                  /\ \A c \in CookiesOnlyIn(jar, jar') : c.name \in gone
            /\ ~shouldSyncStorage(cfg, last'.storageName) => jar' = jar]_vars

\* a clear() has deleted the cookie of a key the storage held and left the
\* cookie of a key it did not hold
C30_Witness ==
  /\ last.op = "clear" /\ ~last.faulty
  /\ Intercepted(last.page)
  /\ last.keys # <<>>
  /\ last.cookieDeletes >= 1
  /\ \A i \in DOMAIN last.keys :
       readFromCookie(tab[last.page].CONFIG, HostOf[last.page], jar, last.keys[i]) = NULL
  /\ \E k \in Keys :
       /\ \A i \in DOMAIN last.keys : last.keys[i] # k
       /\ readFromCookie(tab[last.page].CONFIG, HostOf[last.page], jar, k) # NULL

\* C25: the dispatch of a storage event whose key is null, whatever
\* CONFIG.storageType and CONFIG.syncKeys of the page are, writes and deletes
\* no cookie and leaves the cookie jar as it was.
C25_NullKeyEventKeepsCookies ==
  [][(last'.op = "storage" /\ last'.key = NULL)
     => /\ jar' = jar
        /\ last'.cookieWrites = 0 /\ last'.cookieDeletes = 0]_vars

\* the event of another tab's clear() has been dispatched in a page that
\* mirrors localStorage, while the jar held a cookie of the library
C25_Witness ==
  /\ last.op = "storage" /\ last.key = NULL
  /\ tab[last.page].storageListeners >= 1
  /\ shouldSyncStorage(tab[last.page].CONFIG, last.storageName)
  /\ getAllSyncCookies(tab[last.page].CONFIG, HostOf[last.page], jar) # <<>>

\* C27: when the two tabs, loaded with the same configuration, have only
\* stored and removed values of localStorage and every storage event is
\* dispatched, readFromCookie of each key gives what localStorage holds for
\* it, and null when it holds nothing.
C27_CrossTabConvergence ==
  (/\ \A p \in Tabs : tab[p].inbox = <<>> /\ tab[p].isInitialized
   /\ tab["p1"].CONFIG = tab["p3"].CONFIG)
  => \A k \in Keys :
       readFromCookie(tab["p1"].CONFIG, HostOf["p1"], jar, k)
         = GetItem(localStorage[HostOf["p1"]], k)

\* C28: the dispatch of one storage event for a storage in scope and a key
\* that passes shouldSync, in a page that initialized, writes or deletes a
\* cookie once, whatever the number of init() runs.
C28_OneListener ==
  (/\ last.op = "storage"
   /\ tab[last.page].isInitialized
   /\ shouldSyncStorage(tab[last.page].CONFIG, last.storageName)
   /\ last.matched
   /\ ~InvalidKey(last.key))
  => last.cookieWrites + last.cookieDeletes = 1

\* C29: the dispatch of a storage event whose key is not null, in a page
\* with the listener, changes no storage; for a storage in scope and a key
\* that passes shouldSync, readFromCookie of the key gives null afterwards
\* when the new value is null and the new value otherwise; for a storage
\* out of scope or a key that fails, no cookie is written or deleted and the
\* jar is as it was.
C29_CrossTabListener ==
  [][\A p \in Pages :
       (/\ last'.op = "storage" /\ last'.page = p /\ last'.key # NULL
        /\ tab[p].storageListeners >= 1)
       => /\ localStorage' = localStorage /\ sessionStorage' = sessionStorage
          /\ (shouldSyncStorage(tab[p].CONFIG, last'.storageName) /\ last'.matched)
             => readFromCookie(tab'[p].CONFIG, HostOf[p], jar', last'.key) = last'.value
          /\ ~(shouldSyncStorage(tab[p].CONFIG, last'.storageName) /\ last'.matched)
             => /\ jar' = jar
                /\ last'.cookieWrites = 0 /\ last'.cookieDeletes = 0]_vars

\* the listener has written another tab's value into the cookie of a key
\* for which localStorage holds a later value
C29_Witness ==
  /\ last.op = "storage" /\ last.value # NULL
  /\ last.matched /\ last.cookieWrites >= 1
  /\ shouldSyncStorage(tab[last.page].CONFIG, last.storageName)
  /\ readFromCookie(tab[last.page].CONFIG, HostOf[last.page], jar, last.key) = last.value
  /\ GetItem(localStorage[HostOf[last.page]], last.key) \notin {NULL, last.value}

\* C31: a removeItem(key) without fault, with interception installed, leaves
\* the storage without the key; on a storage in scope with a key that
\* passes shouldSync, readFromCookie of the key gives null afterwards and no
\* cookie but the key's has left the jar; on a storage out of scope or with
\* a key that fails shouldSync the jar is as it was.
C31_SameTabRemoveItem ==
  [][\A p \in Pages :
       (/\ last'.op = "removeItem" /\ last'.page = p /\ ~last'.faulty
        /\ Intercepted(p))
       => \A cfg \in {tab[p].CONFIG} :
            /\ GetItem(StorageAfter(p, last'.storageName), last'.key) = NULL
            /\ (shouldSyncStorage(cfg, last'.storageName) /\ last'.matched)
               => /\ readFromCookie(tab'[p].CONFIG, HostOf[p], jar', last'.key) = NULL
                  /\ CookiesOnlyIn(jar', jar) = {}
                  /\ \A c \in CookiesOnlyIn(jar, jar') :
                       c.name = cfg.cookiePrefix \o sanitizeKey(last'.key)
            /\ ~(shouldSyncStorage(cfg, last'.storageName) /\ last'.matched)
               => jar' = jar /\ last'.cookieDeletes = 0]_vars

\* a removeItem has deleted the cookie of its key and left the cookie of
\* another key in the jar
C31_Witness ==
  /\ last.op = "removeItem" /\ ~last.faulty
  /\ Intercepted(last.page)
  /\ shouldSyncStorage(tab[last.page].CONFIG, last.storageName)
  /\ last.matched /\ last.cookieDeletes = 1
  /\ readFromCookie(tab[last.page].CONFIG, HostOf[last.page], jar, last.key) = NULL
  /\ \E k \in Keys :
       readFromCookie(tab[last.page].CONFIG, HostOf[last.page], jar, k) # NULL

\* C32: when a writeToCookie(k1, v1) has returned true and readFromCookie(k1)
\* gives v1, a writeToCookie or a deleteFromCookie with another key that
\* sanitizeKey accepts leaves readFromCookie(k1) at v1.
C32_DistinctKeysDistinctCookies ==
  [][\A p \in Pages :
       (/\ last.op = "writeToCookie" /\ last.page = p /\ last.returned
        /\ ~InvalidKey(last.key)
        /\ readFromCookie(tab[p].CONFIG, HostOf[p], jar, last.key) = last.value
        /\ last'.op \in CodecOps /\ last'.page = p
        /\ ~InvalidKey(last'.key)
        /\ last'.key # last.key)
       => readFromCookie(tab'[p].CONFIG, HostOf[p], jar', last.key) = last.value]_vars

\* C33: whatever the application has assigned to the fields of the
\* configuration, a setItem, removeItem or clear whose native function had
\* no fault does not throw.
C33_InterceptionKeepsNativeSemantics ==
  (last.op \in {"setItem", "removeItem", "clear"} /\ ~last.faulty) => ~last.threw

\* C34: the dispatch of a storage event changes no storage, calls no native
\* Storage method and raises no event, so one event less waits after it;
\* writeToCookie and deleteFromCookie change no storage and raise no event;
\* a replay pass writes and deletes no cookie; and when the tabs' operations
\* have ended, no event waits any more.
C34_NoFeedbackLoop ==
  /\ [][/\ last'.op = "storage"
           => /\ localStorage' = localStorage /\ sessionStorage' = sessionStorage
              /\ last'.nativeCalls = 0
              /\ Pending' = Pending - 1
        /\ last'.op \in CodecOps
           => /\ localStorage' = localStorage /\ sessionStorage' = sessionStorage
              /\ last'.nativeCalls = 0
              /\ Pending' = Pending
        /\ last'.op = "sync"
           => last'.replayCookieOps = 0 /\ jar' = jar
        /\ Dispatches <=> last'.op = "storage"]_vars
  /\ <>[](Pending = 0)

\* the event a replay pass of the other tab raised by writing storage has
\* been dispatched, its listener has written the cookie, and no event waits
C34_Witness ==
  /\ last.op = "storage" /\ last.cookieWrites >= 1
  /\ last.key = <<"d", "_", "e">>
  /\ GetItem(localStorage[HostOf[last.page]], last.key) # NULL
  /\ Pending = 0

\* the cookies of the library's prefix that page p's document.cookie shows
PrefixedCookies(p, prefix) ==
  {i \in DOMAIN DocumentCookie(jar, HostOf[p]) :
     /\ SplitPiece(DocumentCookie(jar, HostOf[p])[i]).eq # 0
     /\ StartsWith(SplitPiece(DocumentCookie(jar, HostOf[p])[i]).name, prefix)}

WellFormed(p, prefix) ==
  {[key |-> SubSeq(SplitPiece(DocumentCookie(jar, HostOf[p])[i]).name,
                   Len(prefix) + 1,
                   Len(SplitPiece(DocumentCookie(jar, HostOf[p])[i]).name)),
    value |-> decodeURIComponent(SplitPiece(DocumentCookie(jar, HostOf[p])[i]).value)] :
     i \in {j \in PrefixedCookies(p, prefix) :
              ~DecodeThrows(SplitPiece(DocumentCookie(jar, HostOf[p])[j]).value)}}

\* C36: at a load without fault, getAllSyncCookies() has an entry for every
\* cookie of the prefix whose value is valid percent-encoding, whatever else
\* the jar holds, and the pass leaves the value of each such cookie that is
\* not empty in localStorage when localStorage had no value for its key.
C36_MalformedCookieHidesNone ==
  [][\A p \in Pages :
       (last'.op = "load" /\ last'.page = p /\ ~last'.faulty /\ last'.dispatched = 1)
       => \A c \in WellFormed(p, tab'[p].CONFIG.cookiePrefix) :
            /\ \E i \in DOMAIN getAllSyncCookies(tab'[p].CONFIG, HostOf[p], jar) :
                 getAllSyncCookies(tab'[p].CONFIG, HostOf[p], jar)[i] = c
            /\ (c.value # <<>> /\ GetItem(localStorage[HostOf[p]], c.key) = NULL)
               => GetItem(localStorage'[HostOf[p]], c.key) = c.value]_vars

\* C37: when writeToCookie(key, value) returns true, the cookie it assigns
\* to document.cookie, cookiePrefix + sanitized key + "=" + encoded value,
\* is at most 4096 characters long.
C37_CookieSizeBound ==
  [][\A p \in Pages :
       (last'.op = "writeToCookie" /\ last'.page = p /\ last'.returned)
       => Len(tab[p].CONFIG.cookiePrefix) + Len(sanitizeKey(last'.key)) + 1
            + Len(encodeURIComponent(sanitizeValue(last'.value))) <= CookieCeiling]_vars

\* C38: under storageType "both", with every value stored by a setItem under
\* that storageType, a key that localStorage or sessionStorage of the page
\* holds has a cookie: readFromCookie of the key does not give null.
C38_CookieWhileEitherHolds ==
  tab["p1"].CONFIG.storageType = "both"
  => \A n \in StorageNames, k \in Keys :
       GetItem(StorageOf(World("p1"), n), k) # NULL
       => readFromCookie(tab["p1"].CONFIG, HostOf["p1"], jar, k) # NULL

\* C39: what shouldSync(key) gives at a setItem or a removeItem is true
\* exactly when the key is not falsy and syncKeys is empty or one of its
\* rules matches the key, whatever the order of the rules; and it is what
\* shouldSync gave for the same key at the operation just before, the
\* configuration not having been assigned in between.
C39_ShouldSyncIsAFunction ==
  [][\A p \in Pages :
       (last'.op \in {"setItem", "removeItem"} /\ last'.page = p)
       => \A items \in {tab[p].CONFIG.syncKeys.items} :
            /\ last'.matched
                 <=> /\ ~Falsy(last'.key)
                     /\ \/ Len(items) = 0
                        \/ \E i \in DOMAIN items : RuleMatches(items[i], last'.key)
            /\ (/\ last.op \in {"setItem", "removeItem"} /\ last.page = p
                /\ last.key = last'.key)
               => last'.matched = last.matched]_vars

\* the host name is "localhost" or four labels of digits
LocalOrAddress(hostname) ==
  hostname = <<"localhost">>
  \/ (Len(hostname) = 4 /\ \A i \in 1..4 : hostname[i] \in NumericLabels)

\* the last two labels of a host name of more than two, else the host name
LastTwoLabels(hostname) ==
  IF Len(hostname) > 2 THEN SubSeq(hostname, Len(hostname) - 1, Len(hostname))
  ELSE hostname

\* C40: a cookie that a writeToCookie leaves in the jar has the host name as
\* its domain on localhost and on an IPv4 address, and else the last two
\* labels of a host name of more than two labels and the host name of a
\* shorter one; on a page that is on neither, a writeToCookie that returns
\* true leaves the key's cookie with that domain; and when a page that is on
\* neither and has the same last two labels as the page of that
\* writeToCookie calls deleteFromCookie of the key next, the cookie is gone
\* and readFromCookie of the key gives null on both pages.
C40_ParentDomain ==
  [][\A p \in Pages :
       /\ (last'.op = "writeToCookie" /\ last'.page = p)
          => \A c \in CookiesOnlyIn(jar', jar) :
               c.domain = IF LocalOrAddress(HostOf[p]) THEN HostOf[p]
                          ELSE LastTwoLabels(HostOf[p])
       /\ (/\ last'.op = "writeToCookie" /\ last'.page = p /\ last'.returned
           /\ ~LocalOrAddress(HostOf[p]))
          => \E i \in DOMAIN jar' :
               /\ jar'[i].name = tab[p].CONFIG.cookiePrefix \o sanitizeKey(last'.key)
               /\ jar'[i].value = last'.value
               /\ jar'[i].domain = LastTwoLabels(HostOf[p])
       /\ \A q \in Pages :
            (/\ last'.op = "deleteFromCookie" /\ last'.page = q /\ last'.wroteOn = p
             /\ ~LocalOrAddress(HostOf[p]) /\ ~LocalOrAddress(HostOf[q])
             /\ LastTwoLabels(HostOf[p]) = LastTwoLabels(HostOf[q]))
            => /\ readFromCookie(tab[p].CONFIG, HostOf[p], jar', last'.key) = NULL
               /\ readFromCookie(tab[q].CONFIG, HostOf[q], jar', last'.key) = NULL
               /\ Len(jar') = Len(jar) - 1]_vars

\* a page of the domain has deleted the cookie a page of a subdomain had
\* just written
C40_Witness ==
  /\ last.op = "deleteFromCookie" /\ last.returned
  /\ last.wroteOn \notin {"", last.page}
  /\ HostOf[last.wroteOn] # HostOf[last.page]
  /\ Len(HostOf[last.wroteOn]) # Len(HostOf[last.page])
  /\ jar = <<>>

====
